---- MODULE Spec2Model ----
(***************************************************************************)
(* Name harmonization of DROMA-Py (src/src/droma_py/harmonization.py).     *)
(*                                                                         *)
(* A string is a sequence of one-character strings.  A code point that is  *)
(* not ASCII is written as one element naming it ("U4E2D").  The SQL NULL  *)
(* / Python None / pandas NaN of a cell is the value Null.                 *)
(***************************************************************************)
EXTENDS Integers, Sequences, FiniteSets, TLC

\* ------------------------------------------------------------------------
\* Characters
\* ------------------------------------------------------------------------
UpperChars ==
  <<"A","B","C","D","E","F","G","H","I","J","K","L","M",
    "N","O","P","Q","R","S","T","U","V","W","X","Y","Z">>

LowerChars ==
  <<"a","b","c","d","e","f","g","h","i","j","k","l","m",
    "n","o","p","q","r","s","t","u","v","w","x","y","z">>

DigitChars ==
  {"0","1","2","3","4","5","6","7","8","9"}

\* the class [a-z0-9] of the regular expressions
AlnumChars ==
  {LowerChars[i] : i \in 1..26} \cup DigitChars

\* the class \s
SpaceChars ==
  {" ", "\t"}

\* the class [\u4e00-\u9fff], by the code points the model uses
CJKChars ==
  {"U4E00", "U4E2D", "U9FFF"}

Null ==
  <<"<NULL>">>

\* str.lower() on one character
LowerChar(c) ==
  IF \E i \in 1..26 : UpperChars[i] = c
    THEN LowerChars[CHOOSE i \in 1..26 : UpperChars[i] = c]
    ELSE c

\* str.lower()
Lower(s) ==
  [i \in 1..Len(s) |-> LowerChar(s[i])]

\* s[i..] (1-based, empty when i > Len(s))
Drop(s, i) ==
  SubSeq(s, i, Len(s))

\* str.startswith at position i
HasAt(s, i, p) ==
  /\ i + Len(p) - 1 <= Len(s)
  /\ \A k \in 1..Len(p) : s[i + k - 1] = p[k]

\* str.replace(p, ""), p non-empty: leftmost non-overlapping occurrences
RECURSIVE RemoveAll(_, _)
RemoveAll(s, p) ==
  IF s = <<>> THEN <<>>
  ELSE IF HasAt(s, 1, p) THEN RemoveAll(Drop(s, Len(p) + 1), p)
  ELSE <<s[1]>> \o RemoveAll(Drop(s, 2), p)

\* re.sub('[class]', '', s)
RECURSIVE RemoveChars(_, _)
RemoveChars(s, class) ==
  IF s = <<>> THEN <<>>
  ELSE IF s[1] \in class THEN RemoveChars(Drop(s, 2), class)
  ELSE <<s[1]>> \o RemoveChars(Drop(s, 2), class)

\* re.sub('[^class]', '', s)
RECURSIVE KeepChars(_, _)
KeepChars(s, class) ==
  IF s = <<>> THEN <<>>
  ELSE IF s[1] \in class THEN <<s[1]>> \o KeepChars(Drop(s, 2), class)
  ELSE KeepChars(Drop(s, 2), class)

\* positions j >= i of s holding character c
PosFrom(s, i, c) ==
  {j \in i..Len(s) : s[j] = c}

Min(S) ==
  CHOOSE x \in S : \A y \in S : x <= y

Max(S) ==
  CHOOSE x \in S : \A y \in S : x >= y

\* re.sub(r'\[.*?\]', '', s): a '[' with a later ']' goes with everything
\* up to the nearest ']'
RECURSIVE RemoveBrackets(_)
RemoveBrackets(s) ==
  IF s = <<>> THEN <<>>
  ELSE IF s[1] = "[" /\ PosFrom(s, 2, "]") # {}
    THEN RemoveBrackets(Drop(s, Min(PosFrom(s, 2, "]")) + 1))
  ELSE <<s[1]>> \o RemoveBrackets(Drop(s, 2))

\* str.strip() / the \s* at the two ends
RECURSIVE LStrip(_)
LStrip(s) ==
  IF s # <<>> /\ s[1] \in SpaceChars THEN LStrip(Drop(s, 2)) ELSE s

RECURSIVE RStrip(_)
RStrip(s) ==
  IF s # <<>> /\ s[Len(s)] \in SpaceChars
    THEN RStrip(SubSeq(s, 1, Len(s) - 1)) ELSE s

Strip(s) ==
  LStrip(RStrip(s))

\* re.match(r'^\s*\(.*\)\s*$', s)
WholeParen(s) ==
  LET t == Strip(s)
  IN  /\ Len(t) >= 2
      /\ t[1] = "("
      /\ t[Len(t)] = ")"

\* length of the match of r'\s*\([^)]+\)' starting at s[1], 0 if none
ParenGroupLen(s) ==
  LET ws == Len(s) - Len(LStrip(s))
      p  == ws + 1
      cl == PosFrom(s, p + 1, ")")
  IN  IF p <= Len(s) /\ s[p] = "(" /\ cl # {} /\ Min(cl) >= p + 2
        THEN Min(cl)
        ELSE 0

\* re.sub(r'\s*\([^)]+\)', '', s)
RECURSIVE RemoveParenGroups(_)
RemoveParenGroups(s) ==
  IF s = <<>> THEN <<>>
  ELSE IF ParenGroupLen(s) > 0
    THEN RemoveParenGroups(Drop(s, ParenGroupLen(s) + 1))
  ELSE <<s[1]>> \o RemoveParenGroups(Drop(s, 2))

\* re.sub(r'^\s*\(|\)\s*$', '', s)
StripOuterParens(s) ==
  LET a == IF LStrip(s) # <<>> /\ LStrip(s)[1] = "("
             THEN Drop(LStrip(s), 2) ELSE s
      b == IF RStrip(a) # <<>> /\ RStrip(a)[Len(RStrip(a))] = ")"
             THEN SubSeq(RStrip(a), 1, Len(RStrip(a)) - 1) ELSE a
  IN  b

\* lines 46-51 and 82-87: the parenthesis step of both profiles
Parens(s) ==
  IF ~WholeParen(s) THEN RemoveParenGroups(s) ELSE StripOuterParens(s)

\* re.sub(r'[^a-z0-9]', ' ', s)
Spaced(s) ==
  [i \in 1..Len(s) |-> IF s[i] \in AlnumChars THEN s[i] ELSE " "]

\* re.sub(r'\s+', ' ', s)
RECURSIVE Collapse(_)
Collapse(s) ==
  IF s = <<>> THEN <<>>
  ELSE IF s[1] \in SpaceChars
    THEN <<" ">> \o Collapse(LStrip(s))
  ELSE <<s[1]>> \o Collapse(Drop(s, 2))

\* the cleaner without its last substitution
_clean_name_no_reduction(name) ==
  IF name = Null THEN <<>>
  ELSE Strip(
         Parens(RemoveBrackets(RemoveChars(
           RemoveAll(Lower(name), <<"[", "?", "]">>), CJKChars))))

_clean_name(name) ==
  IF name = Null THEN <<>>
  ELSE Strip(KeepChars(
         Parens(RemoveBrackets(RemoveChars(
           RemoveAll(Lower(name), <<"[", "?", "]">>), CJKChars))),
         AlnumChars))

\* the cleaner without the collapse of whitespace
_clean_drug_name_no_collapse(name) ==
  IF name = Null THEN <<>>
  ELSE Strip(Spaced(
         Parens(RemoveChars(
           RemoveAll(Lower(name), <<"[", "?", "]">>), CJKChars))))

_clean_drug_name(name) ==
  IF name = Null THEN <<>>
  ELSE Strip(Collapse(Spaced(
         Parens(RemoveChars(
           RemoveAll(Lower(name), <<"[", "?", "]">>), CJKChars)))))

\* re.split(r'[:|]', s)
RECURSIVE SplitAlt(_)
SplitAlt(s) ==
  LET seps == {j \in 1..Len(s) : s[j] \in {":", "|"}}
  IN  IF seps = {} THEN <<s>>
      ELSE <<SubSeq(s, 1, Min(seps) - 1)>> \o SplitAlt(Drop(s, Min(seps) + 1))

\* the tokens trimmed, the empty ones kept
StripTokens_keeps_blank(toks) ==
  [i \in 1..Len(toks) |-> Strip(toks[i])]

\* [name.strip() for name in alt_names if name.strip() and ...]
RECURSIVE StripTokens(_)
StripTokens(toks) ==
  IF toks = <<>> THEN <<>>
  ELSE IF Strip(toks[1]) = <<>> \/ Strip(toks[1]) = <<"|">>
    THEN StripTokens(Tail(toks))
  ELSE <<Strip(toks[1])>> \o StripTokens(Tail(toks))

\* ------------------------------------------------------------------------
\* The names and annotation rows the calls and the store are drawn from
\* ------------------------------------------------------------------------
\* "MCF-7"
s_MCF_7 ==
  <<"M","C","F","-","7">>

\* "[?]"
s_Missing ==
  <<"[","?","]">>

\* "MCF-7 [breast carcinoma; ATCC1]"
s_LongSample ==
  <<"M","C","F","-","7"," ","[","b","r","e","a","s","t"," ","c","a","r","c","i","n","o","m","a",";"," ","A","T","C","C","1","]">>

\* "MCF7"
s_MCF7 ==
  <<"M","C","F","7">>

\* "HeLa"
s_HeLa ==
  <<"H","e","L","a">>

\* "mcf 7"
s_mcf_7 ==
  <<"m","c","f"," ","7">>

\* "T47D"
s_T47D ==
  <<"T","4","7","D">>

\* "MCF.7|MCF7_BREAST"
s_AltMCF7 ==
  <<"M","C","F",".","7","|","M","C","F","7","_","B","R","E","A","S","T">>

\* "MCF7AB"
s_MCF7AB ==
  <<"M","C","F","7","A","B">>

\* "MCF7A"
s_MCF7A ==
  <<"M","C","F","7","A">>

\* "K562"
s_K562 ==
  <<"K","5","6","2">>

\* "XMCF7ABC"
s_XMCF7ABC ==
  <<"X","M","C","F","7","A","B","C">>

\* "A549"
s_A549 ==
  <<"A","5","4","9">>

\* "mcf7b: |"
s_AltMCF7B ==
  <<"m","c","f","7","b",":"," ","|">>

\* "MCF7XY"
s_MCF7XY ==
  <<"M","C","F","7","X","Y">>

\* "MC116"
s_MC116 ==
  <<"M","C","1","1","6">>

\* "MCF-7 (breast carcinoma; ATCC)": 30 characters
s_Sample30 ==
  <<"M","C","F","-","7"," ","(","b","r","e","a","s","t"," ","c","a","r","c","i","n","o","m","a",";"," ","A","T","C","C",")">>

\* "MC"
s_MC ==
  <<"M","C">>

\* "5-FU (adrucil128)": 17 characters
s_Drug17 ==
  <<"5","-","F","U"," ","(","a","d","r","u","c","i","l","1","2","8",")">>

\* "K5"
s_K5 ==
  <<"K","5">>

\* "5-FU"
s_FU ==
  <<"5","-","F","U">>

\* "5-FU (fluorouracil)"
s_LongDrug ==
  <<"5","-","F","U"," ","(","f","l","u","o","r","o","u","r","a","c","i","l",")">>

\* "5 FU"
s_FU_sp ==
  <<"5"," ","F","U">>

\* "5-FUX"
s_FUX ==
  <<"5","-","F","U","X">>

\* "X5-FUABC"
s_XFUABC ==
  <<"X","5","-","F","U","A","B","C">>

\* "Taxol"
s_Taxol ==
  <<"T","a","x","o","l">>

SampleRow(id, raw, alt) ==
  [SampleID |-> id, ProjectRawName |-> raw, AlternateName |-> alt]

DrugRow(name, raw) ==
  [DrugName |-> name, ProjectRawName |-> raw]

\* input names of the sample profile: a punctuated name, a placeholder that
\* cleans to the empty string, a name of 31 characters
SampleNames ==
  {s_MCF_7, s_Missing, s_LongSample}

\* input names of the drug profile: the same three shapes (19 characters)
DrugNames ==
  {s_FU, s_Missing, s_LongDrug}

SampleRows ==
  { SampleRow(s_MCF7, s_HeLa, Null),
    SampleRow(s_HeLa, s_mcf_7, Null),
    SampleRow(s_T47D, Null, s_AltMCF7),
    SampleRow(s_MCF7AB, s_MCF7A, Null),
    SampleRow(s_K562, s_XMCF7ABC, s_AltMCF7B),
    SampleRow(s_A549, s_MCF7A, Null),
    SampleRow(s_LongSample, s_T47D, Null),
    SampleRow(s_MCF7XY, Null, Null),
    SampleRow(s_MC116, Null, Null),
    SampleRow(Null, s_MCF_7, Null) }

DrugRows ==
  { DrugRow(s_FU_sp, s_Taxol),
    DrugRow(s_Taxol, s_FU),
    DrugRow(s_FUX, Null),
    DrugRow(s_K562, s_FUX),
    DrugRow(s_XFUABC, s_A549),
    DrugRow(s_A549, s_XFUABC),
    DrugRow(s_LongDrug, s_T47D) }

\* ------------------------------------------------------------------------
\* Cleaned keys of the strings above, computed once
\* ------------------------------------------------------------------------
Range(f) ==
  {f[i] : i \in DOMAIN f}

SampleStrings ==
  SampleNames \cup {Null}
    \cup {r.SampleID : r \in SampleRows}
    \cup {r.ProjectRawName : r \in SampleRows}
    \cup UNION {Range(StripTokens(SplitAlt(r.AlternateName))) :
                  r \in {x \in SampleRows : x.AlternateName # Null}}

DrugStrings ==
  DrugNames \cup {Null}
    \cup {r.DrugName : r \in DrugRows}
    \cup {r.ProjectRawName : r \in DrugRows}

SampleCleanTable ==
  [n \in SampleStrings |-> _clean_name(n)]

DrugCleanTable ==
  [n \in DrugStrings |-> _clean_drug_name(n)]

\* _clean_name(name), read from the table where it has the name
CleanName(name) ==
  IF name \in DOMAIN SampleCleanTable
    THEN SampleCleanTable[name] ELSE _clean_name(name)

\* _clean_drug_name(name), read from the table where it has the name
CleanDrug(name) ==
  IF name \in DOMAIN DrugCleanTable
    THEN DrugCleanTable[name] ELSE _clean_drug_name(name)

\* ------------------------------------------------------------------------
\* rapidfuzz: fuzz.ratio and process.extractOne
\* ------------------------------------------------------------------------
\* one row of the table of longest common subsequences: the row of a prefix
\* of a extended by the character c, from the row prev of the prefix; acc
\* holds its entries for the prefixes of b done so far
RECURSIVE LCSRow(_, _, _, _)
LCSRow(prev, c, b, acc) ==
  IF Len(acc) = Len(b) THEN acc
  ELSE LET j == Len(acc) + 1
           diag == IF j = 1 THEN 0 ELSE prev[j - 1]
           left == IF j = 1 THEN 0 ELSE acc[j - 1]
           up == prev[j]
       IN  LCSRow(prev, c, b,
                  Append(acc, IF c = b[j] THEN diag + 1
                              ELSE IF up >= left THEN up ELSE left))

RECURSIVE LCSRows(_, _, _)
LCSRows(a, b, prev) ==
  IF a = <<>> THEN prev
  ELSE LCSRows(Tail(a), b, LCSRow(prev, a[1], b, <<>>))

\* length of a longest common subsequence of a and b
LCS(a, b) ==
  IF b = <<>> THEN 0
  ELSE LCSRows(a, b, [j \in 1..Len(b) |-> 0])[Len(b)]

\* fuzz.ratio(a, b) = 100 * (1 - indel(a, b) / (|a| + |b|)), where
\* indel(a, b) = |a| + |b| - 2 * LCS(a, b); kept as the fraction
\* RatioNum / RatioDen (100/1 for two empty strings)
RatioNum(a, b) ==
  IF Len(a) + Len(b) = 0 THEN 100 ELSE 200 * LCS(a, b)

RatioDen(a, b) ==
  IF Len(a) + Len(b) = 0 THEN 1 ELSE Len(a) + Len(b)

\* fuzz.ratio(q, c) >= score_cutoff
RatioAtLeast(q, c, score_cutoff) ==
  RatioNum(q, c) >= score_cutoff * RatioDen(q, c)

\* fuzz.ratio(q, c1) > fuzz.ratio(q, c2)
RatioGreater(q, c1, c2) ==
  RatioNum(q, c1) * RatioDen(q, c2) > RatioNum(q, c2) * RatioDen(q, c1)

\* extractOne keeping the last of the choices that share the highest score
extractOne_last_best(q, choices, score_cutoff) ==
  LET ok == {i \in 1..Len(choices) : RatioAtLeast(q, choices[i], score_cutoff)}
      best == {i \in ok : \A j \in ok : ~RatioGreater(q, choices[j], choices[i])}
  IN  IF ok = {} THEN 0
      ELSE CHOOSE i \in best : \A j \in best : i >= j

\* process.extractOne(q, choices, scorer=fuzz.ratio, score_cutoff=...):
\* the index of the first choice of the highest score among those at or
\* above the cutoff, 0 for None
extractOne(q, choices, score_cutoff) ==
  LET num == [i \in 1..Len(choices) |-> RatioNum(q, choices[i])]
      den == [i \in 1..Len(choices) |-> RatioDen(q, choices[i])]
      ok == {i \in 1..Len(choices) : num[i] >= score_cutoff * den[i]}
      best == {i \in ok : \A j \in ok : ~(num[j] * den[i] > num[i] * den[j])}
  IN  IF ok = {} THEN 0 ELSE Min(best)

\* the values of max_distance (in hundredths) for which the float product
\* (1 - max_distance) * 100 falls just below the integer 100 - max_distance
TruncatedBelow ==
  {34, 55, 56, 67, 68, 78, 79, 80, 81, 89, 90, 91, 92, 93}

\* the distance itself passed as the cutoff: int(max_distance * 100)
ScoreCutoff_of_distance(max_distance) ==
  max_distance

\* int((1 - max_distance) * 100), max_distance given in hundredths
ScoreCutoff(max_distance) ==
  IF max_distance \in TruncatedBelow
    THEN 100 - max_distance - 1
    ELSE 100 - max_distance

\* ------------------------------------------------------------------------
\* pandas helpers
\* ------------------------------------------------------------------------
\* Series.str.contains(needle): needle is made of [a-z0-9 ] only, so the
\* regular expression search is a substring search
Contains(hay, needle) ==
  \E i \in 1..(Len(hay) + 1) : HasAt(hay, i, needle)

\* indices of the rows of a column equal to key: column[column == key]
RowsEqual(column, key) ==
  {i \in 1..Len(column) : column[i] = key}

\* indices of the rows of a column containing key
RowsContaining(column, key) ==
  {i \in 1..Len(column) : Contains(column[i], key)}

AltEntry(raw, harmonized) ==
  [raw_name |-> raw, harmonized_name |-> harmonized,
   clean_name |-> CleanName(raw)]

RECURSIVE AltEntries(_, _)
AltEntries(toks, harmonized) ==
  IF toks = <<>> THEN <<>>
  ELSE <<AltEntry(toks[1], harmonized)>> \o AltEntries(Tail(toks), harmonized)

\* the alt_data built by the loop over the rows of sample_anno
RECURSIVE alternate_mapping(_)
alternate_mapping(anno) ==
  IF anno = <<>> THEN <<>>
  ELSE LET row == anno[1]
           own == <<AltEntry(row.SampleID, row.SampleID)>>
           alts == IF row.AlternateName # Null /\ row.AlternateName # <<>>
                     THEN AltEntries(StripTokens(SplitAlt(row.AlternateName)),
                                     row.SampleID)
                     ELSE <<>>
       IN  own \o alts \o alternate_mapping(Tail(anno))

\* one dict appended to result_data
ResultRow(original, cleaned, harmonized, type, confidence, new) ==
  [original_name |-> original, cleaned_name |-> cleaned,
   harmonized_name |-> harmonized, match_type |-> type,
   match_confidence |-> confidence, new_name |-> new]

\* ------------------------------------------------------------------------
\* check_droma_sample_names: the body of the loop over sample_names
\* ------------------------------------------------------------------------
\* a column of cleaned keys: anno[field].apply(clean)
CleanSampleID(anno) ==
  [i \in 1..Len(anno) |-> CleanName(anno[i].SampleID)]

CleanSampleRaw(anno) ==
  [i \in 1..Len(anno) |-> CleanName(anno[i].ProjectRawName)]

CleanAlt(alt) ==
  [i \in 1..Len(alt) |-> alt[i].clean_name]

\* the long-name threshold of the sample profile
SampleLongThreshold ==
  30

\* the floor on the cleaned length for the fuzzy tiers
FuzzyMinLength ==
  3

\* the fuzzy tiers with the alternate tier returning the alternate name that
\* matched instead of the SampleID that owns it
SampleFuzzy_alternate_raw_name(original_name, clean_name, anno, ids, raws, alt, score_cutoff) ==
  LET alts == CleanAlt(alt)
      bi   == extractOne(clean_name, ids, score_cutoff)
      br   == extractOne(clean_name, raws, score_cutoff)
      ba   == extractOne(clean_name, alts, score_cutoff)
  IN  IF bi # 0
        THEN LET h == anno[Min(RowsEqual(ids, ids[bi]))].SampleID
             IN  <<ResultRow(original_name, clean_name, h,
                             "fuzzy_sampleid", "medium", h)>>
      ELSE IF br # 0
        THEN LET h == anno[Min(RowsEqual(raws, raws[br]))].SampleID
             IN  <<ResultRow(original_name, clean_name, h,
                             "fuzzy_rawname", "medium", h)>>
      ELSE IF alt # <<>> /\ ba # 0
        THEN LET h == alt[Min(RowsEqual(alts, alts[ba]))].raw_name
             IN  <<ResultRow(original_name, clean_name, h,
                             "fuzzy_alternate", "medium", h)>>
      ELSE <<>>

\* lines 250-314: the fuzzy tiers of one sample name, entered when no exact
\* tier matched; <<>> when none of them accepts a candidate.  ids and raws
\* are the columns clean_sampleid and clean_rawname, alt the alternate
\* mapping (<<>> without the column).
SampleFuzzy(original_name, clean_name, anno, ids, raws, alt, score_cutoff) ==
  LET alts == CleanAlt(alt)
      bi   == extractOne(clean_name, ids, score_cutoff)
      br   == extractOne(clean_name, raws, score_cutoff)
      ba   == extractOne(clean_name, alts, score_cutoff)
  IN  IF bi # 0
        THEN LET h == anno[Min(RowsEqual(ids, ids[bi]))].SampleID
             IN  <<ResultRow(original_name, clean_name, h,
                             "fuzzy_sampleid", "medium", h)>>
      ELSE IF br # 0
        THEN LET h == anno[Min(RowsEqual(raws, raws[br]))].SampleID
             IN  <<ResultRow(original_name, clean_name, h,
                             "fuzzy_rawname", "medium", h)>>
      ELSE IF alt # <<>> /\ ba # 0
        THEN LET h == alt[Min(RowsEqual(alts, alts[ba]))].harmonized_name
             IN  <<ResultRow(original_name, clean_name, h,
                             "fuzzy_alternate", "medium", h)>>
      ELSE <<>>

\* the partial tiers labelled with the confidence of the fuzzy ones
SamplePartial_medium(original_name, clean_name, anno, ids, raws) ==
  LET pi == RowsContaining(ids, clean_name)
      pr == RowsContaining(raws, clean_name)
  IN  IF pi # {}
        THEN LET h == anno[Min(pi)].SampleID
             IN  <<ResultRow(original_name, clean_name, h,
                             "partial_sampleid", "medium", h)>>
      ELSE IF pr # {}
        THEN LET h == anno[Min(pr)].SampleID
             IN  <<ResultRow(original_name, clean_name, h,
                             "partial_rawname", "medium", h)>>
      ELSE <<>>

\* lines 316-344: the partial tiers of one sample name
SamplePartial(original_name, clean_name, anno, ids, raws) ==
  LET pi == RowsContaining(ids, clean_name)
      pr == RowsContaining(raws, clean_name)
  IN  IF pi # {}
        THEN LET h == anno[Min(pi)].SampleID
             IN  <<ResultRow(original_name, clean_name, h,
                             "partial_sampleid", "low", h)>>
      ELSE IF pr # {}
        THEN LET h == anno[Min(pr)].SampleID
             IN  <<ResultRow(original_name, clean_name, h,
                             "partial_rawname", "low", h)>>
      ELSE <<>>

\* the tiers in another order: the partial tiers tried before the fuzzy ones
SampleTiers_partial_first(original_name, clean_name, anno, ids, raws, alt, max_distance, min_name_length) ==
  LET ei == RowsEqual(ids, clean_name)
      er == RowsEqual(raws, clean_name)
      ea == RowsEqual(CleanAlt(alt), clean_name)
      fuzzy == IF Len(clean_name) >= FuzzyMinLength
                 THEN SampleFuzzy(original_name, clean_name, anno, ids, raws,
                                  alt, ScoreCutoff(max_distance))
                 ELSE <<>>
      partial == IF Len(clean_name) >= min_name_length
                   THEN SamplePartial(original_name, clean_name, anno,
                                      ids, raws)
                   ELSE <<>>
  IN  IF ei # {}
        THEN ResultRow(original_name, clean_name, anno[Min(ei)].SampleID,
                       "exact_sampleid", "high", anno[Min(ei)].SampleID)
      ELSE IF er # {}
        THEN ResultRow(original_name, clean_name, anno[Min(er)].SampleID,
                       "exact_rawname", "high", anno[Min(er)].SampleID)
      ELSE IF alt # <<>> /\ ea # {}
        THEN ResultRow(original_name, clean_name, alt[Min(ea)].harmonized_name,
                       "exact_alternate", "high", alt[Min(ea)].harmonized_name)
      ELSE IF partial # <<>> THEN partial[1]
      ELSE IF fuzzy # <<>> THEN fuzzy[1]
      ELSE ResultRow(original_name, clean_name, clean_name,
                     "no_match", "none", original_name)

\* lines 206-355: the tiers of one sample name that is not kept as a long
\* name, against a non-empty sample_anno
SampleTiers(original_name, clean_name, anno, ids, raws, alt, max_distance, min_name_length) ==
  LET ei == RowsEqual(ids, clean_name)
      er == RowsEqual(raws, clean_name)
      ea == RowsEqual(CleanAlt(alt), clean_name)
      fuzzy == IF Len(clean_name) >= FuzzyMinLength
                 THEN SampleFuzzy(original_name, clean_name, anno, ids, raws,
                                  alt, ScoreCutoff(max_distance))
                 ELSE <<>>
      partial == IF Len(clean_name) >= min_name_length
                   THEN SamplePartial(original_name, clean_name, anno,
                                      ids, raws)
                   ELSE <<>>
  IN  IF ei # {}
        THEN ResultRow(original_name, clean_name, anno[Min(ei)].SampleID,
                       "exact_sampleid", "high", anno[Min(ei)].SampleID)
      ELSE IF er # {}
        THEN ResultRow(original_name, clean_name, anno[Min(er)].SampleID,
                       "exact_rawname", "high", anno[Min(er)].SampleID)
      ELSE IF alt # <<>> /\ ea # {}
        THEN ResultRow(original_name, clean_name, alt[Min(ea)].harmonized_name,
                       "exact_alternate", "high", alt[Min(ea)].harmonized_name)
      ELSE IF fuzzy # <<>> THEN fuzzy[1]
      ELSE IF partial # <<>> THEN partial[1]
      ELSE ResultRow(original_name, clean_name, clean_name,
                     "no_match", "none", original_name)

\* the length test made on the cleaned key instead of the original name
match_sample_name_cleaned_length(original_name, anno, ids, raws, alt, max_distance, min_name_length) ==
  LET clean_name == CleanName(original_name)
  IN  IF Len(clean_name) > SampleLongThreshold
        THEN ResultRow(original_name, clean_name, original_name,
                       "keep_original_long", "medium", original_name)
        ELSE SampleTiers(original_name, clean_name, anno, ids, raws, alt,
                         max_distance, min_name_length)

\* lines 191-355: the result row of one sample name against a non-empty
\* sample_anno
match_sample_name(original_name, anno, ids, raws, alt, max_distance, min_name_length) ==
  LET clean_name == CleanName(original_name)
  IN  IF Len(original_name) > SampleLongThreshold
        THEN ResultRow(original_name, clean_name, original_name,
                       "keep_original_long", "medium", original_name)
        ELSE SampleTiers(original_name, clean_name, anno, ids, raws, alt,
                         max_distance, min_name_length)

\* ------------------------------------------------------------------------
\* check_droma_drug_names: the body of the loop over drug_names
\* ------------------------------------------------------------------------
CleanDrugName(anno) ==
  [i \in 1..Len(anno) |-> CleanDrug(anno[i].DrugName)]

CleanDrugRaw(anno) ==
  [i \in 1..Len(anno) |-> CleanDrug(anno[i].ProjectRawName)]

\* the fuzzy tiers leaving new_name at the original name
DrugFuzzy_keeps_original(original_name, clean_name, anno, ids, raws, score_cutoff) ==
  LET bi == extractOne(clean_name, ids, score_cutoff)
      br == extractOne(clean_name, raws, score_cutoff)
  IN  IF bi # 0
        THEN LET h == anno[Min(RowsEqual(ids, ids[bi]))].DrugName
             IN  <<ResultRow(original_name, clean_name, h,
                             "fuzzy_drugname", "medium", original_name)>>
      ELSE IF br # 0
        THEN LET h == anno[Min(RowsEqual(raws, raws[br]))].DrugName
             IN  <<ResultRow(original_name, clean_name, h,
                             "fuzzy_rawname", "medium", original_name)>>
      ELSE <<>>

\* lines 492-534: the fuzzy tiers of one drug name; ids and raws are the
\* columns clean_drugname and clean_rawname
DrugFuzzy(original_name, clean_name, anno, ids, raws, score_cutoff) ==
  LET bi == extractOne(clean_name, ids, score_cutoff)
      br == extractOne(clean_name, raws, score_cutoff)
  IN  IF bi # 0
        THEN LET h == anno[Min(RowsEqual(ids, ids[bi]))].DrugName
             IN  <<ResultRow(original_name, clean_name, h,
                             "fuzzy_drugname", "medium", h)>>
      ELSE IF br # 0
        THEN LET h == anno[Min(RowsEqual(raws, raws[br]))].DrugName
             IN  <<ResultRow(original_name, clean_name, h,
                             "fuzzy_rawname", "medium", h)>>
      ELSE <<>>

\* lines 536-564: the partial tiers of one drug name
DrugPartial(original_name, clean_name, anno, ids, raws) ==
  LET pi == RowsContaining(ids, clean_name)
      pr == RowsContaining(raws, clean_name)
  IN  IF pi # {}
        THEN LET h == anno[Min(pi)].DrugName
             IN  <<ResultRow(original_name, clean_name, h,
                             "partial_drugname", "low", h)>>
      ELSE IF pr # {}
        THEN LET h == anno[Min(pr)].DrugName
             IN  <<ResultRow(original_name, clean_name, h,
                             "partial_rawname", "low", h)>>
      ELSE <<>>

\* the tiers with the fuzzy ones tried on a cleaned name of any length
DrugTiers_fuzzy_any_length(original_name, clean_name, anno, ids, raws, max_distance, min_name_length) ==
  LET ei == RowsEqual(ids, clean_name)
      er == RowsEqual(raws, clean_name)
      fuzzy == DrugFuzzy(original_name, clean_name, anno, ids, raws,
                         ScoreCutoff(max_distance))
      partial == IF Len(clean_name) >= min_name_length
                   THEN DrugPartial(original_name, clean_name, anno,
                                    ids, raws)
                   ELSE <<>>
  IN  IF ei # {}
        THEN ResultRow(original_name, clean_name, anno[Min(ei)].DrugName,
                       "exact_drugname", "high", anno[Min(ei)].DrugName)
      ELSE IF er # {}
        THEN ResultRow(original_name, clean_name, anno[Min(er)].DrugName,
                       "exact_rawname", "high", anno[Min(er)].DrugName)
      ELSE IF fuzzy # <<>> THEN fuzzy[1]
      ELSE IF partial # <<>> THEN partial[1]
      ELSE ResultRow(original_name, clean_name, clean_name,
                     "no_match", "none", original_name)

\* lines 462-575: the tiers of one drug name that is not kept as a long
\* name, against a non-empty drug_anno
DrugTiers(original_name, clean_name, anno, ids, raws, max_distance, min_name_length) ==
  LET ei == RowsEqual(ids, clean_name)
      er == RowsEqual(raws, clean_name)
      fuzzy == IF Len(clean_name) >= FuzzyMinLength
                 THEN DrugFuzzy(original_name, clean_name, anno, ids, raws,
                                ScoreCutoff(max_distance))
                 ELSE <<>>
      partial == IF Len(clean_name) >= min_name_length
                   THEN DrugPartial(original_name, clean_name, anno,
                                    ids, raws)
                   ELSE <<>>
  IN  IF ei # {}
        THEN ResultRow(original_name, clean_name, anno[Min(ei)].DrugName,
                       "exact_drugname", "high", anno[Min(ei)].DrugName)
      ELSE IF er # {}
        THEN ResultRow(original_name, clean_name, anno[Min(er)].DrugName,
                       "exact_rawname", "high", anno[Min(er)].DrugName)
      ELSE IF fuzzy # <<>> THEN fuzzy[1]
      ELSE IF partial # <<>> THEN partial[1]
      ELSE ResultRow(original_name, clean_name, clean_name,
                     "no_match", "none", original_name)

\* a name as long as the threshold kept as a long name too
match_drug_name_at_threshold(original_name, anno, ids, raws, max_distance, min_name_length, keep_long_names_threshold) ==
  LET clean_name == CleanDrug(original_name)
  IN  IF Len(original_name) >= keep_long_names_threshold
        THEN ResultRow(original_name, clean_name, original_name,
                       "keep_original_long", "medium", original_name)
        ELSE DrugTiers(original_name, clean_name, anno, ids, raws,
                       max_distance, min_name_length)

\* lines 447-575: the result row of one drug name against a non-empty
\* drug_anno
match_drug_name(original_name, anno, ids, raws, max_distance, min_name_length, keep_long_names_threshold) ==
  LET clean_name == CleanDrug(original_name)
  IN  IF Len(original_name) > keep_long_names_threshold
        THEN ResultRow(original_name, clean_name, original_name,
                       "keep_original_long", "medium", original_name)
        ELSE DrugTiers(original_name, clean_name, anno, ids, raws,
                       max_distance, min_name_length)

\* bounds of the model
MaxNames ==
  2

MaxRows ==
  2

\* max_distance, in hundredths (0.0, the default 0.2, and 0.55, for which
\* the float product (1 - 0.55) * 100 is 44.99999999999999)
MaxDistances ==
  {0, 20, 55}

\* min_name_length (3 and the default 5)
MinNameLengths ==
  {3, 5}

\* keep_long_names_threshold (the default)
DrugLongThreshold ==
  17

\* sequences over S of length at most n
SeqsUpTo(S, n) ==
  UNION {[1..k -> S] : k \in 0..n}

\* tables: sequences of distinct rows
TablesOver(S, n) ==
  {t \in SeqsUpTo(S, n) : \A i, j \in 1..Len(t) : i # j => t[i] # t[j]}

\* a sample_anno created without the AlternateName column
WithoutAlt(t) ==
  [i \in 1..Len(t) |-> [t[i] EXCEPT !.AlternateName = Null]]

\* ------------------------------------------------------------------------
\* State
\* ------------------------------------------------------------------------
VARIABLES
  tables,             \* names of the tables of the store (sqlite_master)
  sample_anno,        \* rows of sample_anno, in table order
  drug_anno,          \* rows of drug_anno, in table order
  sample_has_alt,     \* sample_anno has the column AlternateName
  call,               \* the last harmonization call: function and arguments
  outcome,            \* how it ended: "returned" or the exception raised
  result,             \* the rows of the DataFrame it returned (an update:
                      \* the counts it logs)
  cleaned,            \* how many input names it passed to the cleaner
  previous,           \* the call made before the last one, and how it ended
  calls_left,         \* how many more calls the caller makes
  text,               \* a name handed to a cleaner (Null for None / NaN)
  profile,            \* the cleaner it was handed to: "sample" or "drug"
  key,                \* what the cleaner returned for text
  rekey,              \* what the cleaner returned for key
  earlier,            \* the call made before the previous one
  omics,              \* the data tables of the store, by name
  id_not_null,        \* the annotation tables refuse a NULL id
  _global_connection, \* database._global_connection (None: 0)
  open_connections,   \* the sqlite3 connections that are open
  made,               \* how many connections were opened so far
  fn_made,            \* those connect_droma_database returned
  db_connection,      \* DROMADatabase.connection (None: 0)
  _is_connected,      \* DROMADatabase._is_connected
  db_opened,          \* the connections the DROMADatabase opened
  conn_op             \* the last connection operation and how it ended

vars ==
  <<tables, sample_anno, drug_anno, sample_has_alt,
    call, outcome, result, cleaned, previous, calls_left,
    text, profile, key, rekey,
    earlier, omics, id_not_null,
    _global_connection, open_connections, made, fn_made,
    db_connection, _is_connected, db_opened, conn_op>>

\* the connections
connections ==
  <<_global_connection, open_connections, made, fn_made,
    db_connection, _is_connected, db_opened, conn_op>>

\* the part of the store the harmonization does not read
written ==
  <<omics, id_not_null>>

\* the state of the harmonization calls, and that of the cleaners
calls ==
  <<call, outcome, result, cleaned, previous, calls_left>>

cleaning ==
  <<text, profile, key, rekey>>

store ==
  <<tables, sample_anno, drug_anno, sample_has_alt>>

NoCall ==
  [fn |-> "none", names |-> <<>>, max_distance |-> 0,
   min_name_length |-> 0, keep_long_names_threshold |-> 0]

\* no call before the last one
NoPrevious ==
  [call |-> NoCall, outcome |-> "none", result |-> <<>>]

\* what a call leaves behind
Ended(how, rows, n) ==
  [outcome |-> how, result |-> rows, cleaned |-> n]

\* the call without the test for the table: a missing table read as empty
check_droma_sample_names_unchecked(sample_names, max_distance, min_name_length) ==
  IF sample_anno = <<>>
    THEN Ended("returned",
               [i \in 1..Len(sample_names) |->
                  ResultRow(sample_names[i], CleanName(sample_names[i]),
                            sample_names[i], "no_match", "none",
                            sample_names[i])],
               Len(sample_names))
  ELSE LET ids == CleanSampleID(sample_anno)
           raws == CleanSampleRaw(sample_anno)
           alt == IF sample_has_alt THEN alternate_mapping(sample_anno)
                  ELSE <<>>
           result_data ==
             [i \in 1..Len(sample_names) |->
                match_sample_name(sample_names[i], sample_anno, ids, raws,
                                  alt, max_distance, min_name_length)]
       IN  IF result_data = <<>>
             THEN Ended("KeyError", <<>>, Len(sample_names))
             ELSE Ended("returned", result_data, Len(sample_names))

\* the call matching every name on the cleaned key of the first one
check_droma_sample_names_first_key(sample_names, max_distance, min_name_length) ==
  IF "sample_anno" \notin tables
    THEN Ended("DROMATableError", <<>>, 0)
  ELSE IF sample_anno = <<>>
    THEN Ended("returned",
               [i \in 1..Len(sample_names) |->
                  ResultRow(sample_names[i], CleanName(sample_names[i]),
                            sample_names[i], "no_match", "none",
                            sample_names[i])],
               Len(sample_names))
  ELSE LET ids == CleanSampleID(sample_anno)
           raws == CleanSampleRaw(sample_anno)
           alt == IF sample_has_alt THEN alternate_mapping(sample_anno)
                  ELSE <<>>
           result_data ==
             [i \in 1..Len(sample_names) |->
                [match_sample_name(sample_names[1], sample_anno, ids, raws,
                                   alt, max_distance, min_name_length)
                   EXCEPT !.original_name = sample_names[i]]]
       IN  IF result_data = <<>>
             THEN Ended("KeyError", <<>>, Len(sample_names))
             ELSE Ended("returned", result_data, Len(sample_names))

\* lines 124-376
check_droma_sample_names(sample_names, max_distance, min_name_length) ==
  IF "sample_anno" \notin tables
    THEN Ended("DROMATableError", <<>>, 0)
  ELSE IF sample_anno = <<>>
    THEN Ended("returned",
               [i \in 1..Len(sample_names) |->
                  ResultRow(sample_names[i], CleanName(sample_names[i]),
                            sample_names[i], "no_match", "none",
                            sample_names[i])],
               Len(sample_names))
  ELSE LET ids == CleanSampleID(sample_anno)
           raws == CleanSampleRaw(sample_anno)
           alt == IF sample_has_alt THEN alternate_mapping(sample_anno)
                  ELSE <<>>
           result_data ==
             [i \in 1..Len(sample_names) |->
                match_sample_name(sample_names[i], sample_anno, ids, raws,
                                  alt, max_distance, min_name_length)]
       IN  \* pd.DataFrame([]) has no column 'match_type'
           IF result_data = <<>>
             THEN Ended("KeyError", <<>>, Len(sample_names))
             ELSE Ended("returned", result_data, Len(sample_names))

\* the call without the early return for an empty drug_anno
check_droma_drug_names_no_empty_case(drug_names, max_distance, min_name_length, keep_long_names_threshold) ==
  IF "drug_anno" \notin tables
    THEN Ended("DROMATableError", <<>>, 0)
  ELSE LET ids == CleanDrugName(drug_anno)
           raws == CleanDrugRaw(drug_anno)
           result_data ==
             [i \in 1..Len(drug_names) |->
                match_drug_name(drug_names[i], drug_anno, ids, raws,
                                max_distance, min_name_length,
                                keep_long_names_threshold)]
       IN  IF result_data = <<>>
             THEN Ended("KeyError", <<>>, Len(drug_names))
             ELSE Ended("returned", result_data, Len(drug_names))

\* lines 408-596
check_droma_drug_names(drug_names, max_distance, min_name_length, keep_long_names_threshold) ==
  IF "drug_anno" \notin tables
    THEN Ended("DROMATableError", <<>>, 0)
  ELSE IF drug_anno = <<>>
    THEN Ended("returned",
               [i \in 1..Len(drug_names) |->
                  ResultRow(drug_names[i], CleanDrug(drug_names[i]),
                            drug_names[i], "no_match", "none",
                            drug_names[i])],
               Len(drug_names))
  ELSE LET ids == CleanDrugName(drug_anno)
           raws == CleanDrugRaw(drug_anno)
           result_data ==
             [i \in 1..Len(drug_names) |->
                match_drug_name(drug_names[i], drug_anno, ids, raws,
                                max_distance, min_name_length,
                                keep_long_names_threshold)]
       IN  IF result_data = <<>>
             THEN Ended("KeyError", <<>>, Len(drug_names))
             ELSE Ended("returned", result_data, Len(drug_names))

\* ------------------------------------------------------------------------
\* Initial states and actions
\* ------------------------------------------------------------------------
\* the names of the data tables
OmicsNames ==
  {"P1_mRNA", "P2_drug"}

\* a data table that is not in the store
NoTable ==
  [data |-> "none", feature_id |-> FALSE]

\* no connection operation has been made, the store has no data table and
\* no constraint
NoOp ==
  [op |-> "none", outcome |-> "none", returned |-> 0]

Untouched ==
  /\ earlier = NoPrevious
  /\ omics = [n \in OmicsNames |-> NoTable]
  /\ id_not_null = FALSE
  /\ _global_connection = 0
  /\ open_connections = {}
  /\ made = 0
  /\ fn_made = {}
  /\ db_connection = 0
  /\ _is_connected = FALSE
  /\ db_opened = {}
  /\ conn_op = NoOp

\* no name has been handed to a cleaner on its own
NoCleaning ==
  /\ text = Null
  /\ profile = "none"
  /\ key = Null
  /\ rekey = Null

\* The store as the annotation management left it: either annotation table
\* may be missing, empty or filled; no call has been made.  A behaviour of
\* Spec is one harmonization call on that store.
Init ==
  /\ \/ /\ tables = {"sample_anno"}
        /\ \E t \in TablesOver(SampleRows, MaxRows), h \in BOOLEAN :
             /\ sample_has_alt = h
             /\ sample_anno = IF h THEN t ELSE WithoutAlt(t)
        /\ drug_anno = <<>>
     \/ /\ tables = {"drug_anno"}
        /\ drug_anno \in TablesOver(DrugRows, MaxRows)
        /\ sample_anno = <<>>
        /\ sample_has_alt = FALSE
     \/ /\ tables \in {{}, {"sample_anno", "drug_anno"}}
        /\ sample_anno = <<>>
        /\ drug_anno = <<>>
        /\ sample_has_alt = FALSE
  /\ call = NoCall
  /\ outcome = "none"
  /\ result = <<>>
  /\ cleaned = 0
  /\ previous = NoPrevious
  /\ calls_left = 1
  /\ NoCleaning
  /\ Untouched

\* the sample_anno and the drug_anno of the stores on which a caller makes
\* two calls in a row
TwoCallSampleAnno ==
  << SampleRow(s_MC116, Null, Null),
     SampleRow(s_K562, s_XMCF7ABC, s_AltMCF7B) >>

TwoCallDrugAnno ==
  << DrugRow(s_K562, Null),
     DrugRow(s_A549, Null) >>

\* A store with a filled sample_anno and a drug_anno that is filled or
\* missing, on which the caller makes two harmonization calls.
InitCalls ==
  /\ sample_anno = TwoCallSampleAnno
  /\ sample_has_alt = TRUE
  /\ \/ tables = {"sample_anno", "drug_anno"} /\ drug_anno = TwoCallDrugAnno
     \/ tables = {"sample_anno"} /\ drug_anno = <<>>
  /\ call = NoCall
  /\ outcome = "none"
  /\ result = <<>>
  /\ cleaned = 0
  /\ previous = NoPrevious
  /\ calls_left = 2
  /\ NoCleaning
  /\ Untouched

\* how many calls the caller makes in all
CallsPlanned ==
  calls_left + (IF call.fn = "none" THEN 0 ELSE 1)
             + (IF previous.call.fn = "none" THEN 0 ELSE 1)
             + (IF earlier.call.fn = "none" THEN 0 ELSE 1)

\* the lists of names a caller that makes two calls works through
SampleWorklist ==
  <<s_MCF_7, s_Missing, s_LongSample, s_Sample30, s_MC>>

DrugWorklist ==
  <<s_FU, s_Missing, s_LongDrug, s_Drug17, s_K5>>

\* the contiguous parts of a list, the empty one included
Slices(w) ==
  {SubSeq(w, i, j) : i \in 1..(Len(w) + 1), j \in 0..Len(w)}

\* the batches a call is made on: any batch of at most MaxNames names from a
\* caller that makes one call, any contiguous part of the worklist from a
\* caller that makes two
SampleBatches ==
  IF CallsPlanned = 1 THEN SeqsUpTo(SampleNames, MaxNames)
  ELSE Slices(SampleWorklist)

DrugBatches ==
  IF CallsPlanned = 1 THEN SeqsUpTo(DrugNames, MaxNames)
  ELSE Slices(DrugWorklist)

\* the call writing the frame with the cleaned ids back to the table
CheckSampleNames_writes_back ==
  \E names \in SampleBatches,
     d \in MaxDistances, m \in MinNameLengths :
    LET r == check_droma_sample_names(names, d, m)
    IN  /\ calls_left > 0
        /\ calls_left' = calls_left - 1
        /\ previous' = [call |-> call, outcome |-> outcome, result |-> result]
        /\ call' = [fn |-> "check_droma_sample_names", names |-> names,
                    max_distance |-> d, min_name_length |-> m,
                    keep_long_names_threshold |-> SampleLongThreshold]
        /\ outcome' = r.outcome
        /\ result' = r.result
        /\ cleaned' = r.cleaned
        /\ sample_anno' = [i \in 1..Len(sample_anno) |->
                             [sample_anno[i] EXCEPT
                                !.SampleID = CleanName(@)]]
        /\ UNCHANGED <<tables, drug_anno, sample_has_alt>>
        /\ UNCHANGED cleaning
        /\ earlier' = previous
        /\ UNCHANGED written
        /\ UNCHANGED connections

CheckSampleNames ==
  \E names \in SampleBatches,
     d \in MaxDistances, m \in MinNameLengths :
    LET r == check_droma_sample_names(names, d, m)
    IN  /\ calls_left > 0
        /\ calls_left' = calls_left - 1
        /\ previous' = [call |-> call, outcome |-> outcome, result |-> result]
        /\ call' = [fn |-> "check_droma_sample_names", names |-> names,
                    max_distance |-> d, min_name_length |-> m,
                    keep_long_names_threshold |-> SampleLongThreshold]
        /\ outcome' = r.outcome
        /\ result' = r.result
        /\ cleaned' = r.cleaned
        /\ UNCHANGED store
        /\ UNCHANGED cleaning
        /\ earlier' = previous
        /\ UNCHANGED written
        /\ UNCHANGED connections

CheckDrugNames ==
  \E names \in DrugBatches,
     d \in MaxDistances, m \in MinNameLengths :
    LET r == check_droma_drug_names(names, d, m, DrugLongThreshold)
    IN  /\ calls_left > 0
        /\ calls_left' = calls_left - 1
        /\ previous' = [call |-> call, outcome |-> outcome, result |-> result]
        /\ call' = [fn |-> "check_droma_drug_names", names |-> names,
                    max_distance |-> d, min_name_length |-> m,
                    keep_long_names_threshold |-> DrugLongThreshold]
        /\ outcome' = r.outcome
        /\ result' = r.result
        /\ cleaned' = r.cleaned
        /\ UNCHANGED store
        /\ UNCHANGED cleaning
        /\ earlier' = previous
        /\ UNCHANGED written
        /\ UNCHANGED connections

Next ==
  \/ CheckSampleNames
  \/ CheckDrugNames

Spec ==
  Init /\ [][Next]_vars

\* two calls in a row on one store
SpecCalls ==
  InitCalls /\ [][Next]_vars

\* ------------------------------------------------------------------------
\* The cleaners on their own
\* ------------------------------------------------------------------------
\* the longest name made of the characters below
MaxLen ==
  4

\* a letter of each case, a digit, the separators and the brackets the
\* cleaners treat
CleanAlphabet ==
  {"a", "B", "7", " ", "-", "(", ")", "[", "]", "?"}

\* "(a) b (c)"
s_ParenEnds ==
  <<"(","a",")"," ","b"," ","(","c",")">>

\* "5-Fluorouracil"
s_Fluorouracil ==
  <<"5","-","F","l","u","o","r","o","u","r","a","c","i","l">>

\* "MCF-7" followed by two ideographs, U+4E2D and U+9FFF
s_MCF_7_CJK ==
  <<"M","C","F","-","7","U4E2D","U9FFF">>

\* the names handed to a cleaner: None, every string of at most MaxLen
\* characters of the alphabet, and some longer names
CleanInputs ==
  {Null} \cup SeqsUpTo(CleanAlphabet, MaxLen)
    \cup {s_ParenEnds, s_Fluorouracil, s_MCF_7_CJK, s_LongSample, s_LongDrug}

\* no harmonization call is made; a name is about to be cleaned
InitClean ==
  /\ tables = {}
  /\ sample_anno = <<>>
  /\ drug_anno = <<>>
  /\ sample_has_alt = FALSE
  /\ call = NoCall
  /\ outcome = "none"
  /\ result = <<>>
  /\ cleaned = 0
  /\ previous = NoPrevious
  /\ calls_left = 0
  /\ text \in CleanInputs
  /\ profile = "none"
  /\ key = Null
  /\ rekey = Null
  /\ Untouched

\* _clean_name(text)
ApplyCleanName ==
  /\ profile = "none"
  /\ profile' = "sample"
  /\ key' = _clean_name(text)
  /\ UNCHANGED <<text, rekey>>
  /\ UNCHANGED store
  /\ UNCHANGED calls
  /\ UNCHANGED <<earlier, written, connections>>

\* _clean_drug_name(text)
ApplyCleanDrugName ==
  /\ profile = "none"
  /\ profile' = "drug"
  /\ key' = _clean_drug_name(text)
  /\ UNCHANGED <<text, rekey>>
  /\ UNCHANGED store
  /\ UNCHANGED calls
  /\ UNCHANGED <<earlier, written, connections>>

\* the same cleaner applied to the key it returned
ApplyAgain ==
  /\ profile # "none"
  /\ rekey = Null
  /\ rekey' = IF profile = "sample" THEN _clean_name(key)
                                    ELSE _clean_drug_name(key)
  /\ UNCHANGED <<text, profile, key>>
  /\ UNCHANGED store
  /\ UNCHANGED calls
  /\ UNCHANGED <<earlier, written, connections>>

NextClean ==
  \/ ApplyCleanName
  \/ ApplyCleanDrugName
  \/ ApplyAgain

CleanSpec ==
  InitClean /\ [][NextClean]_vars

\* ------------------------------------------------------------------------
\* The connections: database.py
\* ------------------------------------------------------------------------
\* how many connections a behaviour opens at most
MaxConnections ==
  3

\* what the connection operations leave alone
NotConnections ==
  <<tables, sample_anno, drug_anno, sample_has_alt,
    call, outcome, result, cleaned, previous, calls_left,
    text, profile, key, rekey, earlier, omics, id_not_null>>

\* no connection has been opened; connections are numbered as they are
\* opened
InitConn ==
  /\ tables = {}
  /\ sample_anno = <<>>
  /\ drug_anno = <<>>
  /\ sample_has_alt = FALSE
  /\ call = NoCall
  /\ outcome = "none"
  /\ result = <<>>
  /\ cleaned = 0
  /\ previous = NoPrevious
  /\ calls_left = 0
  /\ NoCleaning
  /\ Untouched

Op(name, how, c) ==
  [op |-> name, outcome |-> how, returned |-> c]

\* lines 203-241: connect_droma_database(db_path, set_global); exists is
\* db_path.exists()
ConnectDromaDatabase ==
  \E set_global \in BOOLEAN, exists \in BOOLEAN :
    IF ~exists
      THEN /\ conn_op' = Op("connect_droma_database",
                            "DROMAConnectionError", 0)
           /\ UNCHANGED <<_global_connection, open_connections, made,
                          fn_made, db_connection, _is_connected, db_opened>>
           /\ UNCHANGED NotConnections
      ELSE /\ made < MaxConnections
           /\ made' = made + 1
           /\ fn_made' = fn_made \cup {made + 1}
           /\ open_connections' =
                (IF set_global /\ _global_connection # 0
                   THEN open_connections \ {_global_connection}
                   ELSE open_connections) \cup {made + 1}
           /\ _global_connection' =
                IF set_global THEN made + 1 ELSE _global_connection
           /\ conn_op' = Op("connect_droma_database", "returned", made + 1)
           /\ UNCHANGED <<db_connection, _is_connected, db_opened>>
           /\ UNCHANGED NotConnections

\* lines 259-274: close_droma_database(connection), connection None (0) or
\* one that connect_droma_database returned
CloseDromaDatabase ==
  \E connection \in {0} \cup fn_made :
    /\ IF connection = 0
         THEN IF _global_connection = 0
                THEN /\ conn_op' = Op("close_droma_database", "False", 0)
                     /\ UNCHANGED <<_global_connection, open_connections>>
                ELSE /\ open_connections' =
                          open_connections \ {_global_connection}
                     /\ _global_connection' = 0
                     /\ conn_op' = Op("close_droma_database", "True",
                                      _global_connection)
         ELSE /\ open_connections' = open_connections \ {connection}
              /\ conn_op' = Op("close_droma_database", "True", connection)
              /\ UNCHANGED _global_connection
    /\ UNCHANGED <<made, fn_made, db_connection, _is_connected, db_opened>>
    /\ UNCHANGED NotConnections

\* lines 287-295: get_global_connection()
GetGlobalConnection ==
  /\ conn_op' = IF _global_connection = 0
                  THEN Op("get_global_connection", "DROMAConnectionError", 0)
                  ELSE Op("get_global_connection", "returned",
                          _global_connection)
  /\ UNCHANGED <<_global_connection, open_connections, made, fn_made,
                 db_connection, _is_connected, db_opened>>
  /\ UNCHANGED NotConnections

\* lines 62-78: DROMADatabase.connect(), called as name.  The connection
\* that self.connection referred to is not closed: it stays open while the
\* caller holds the reference connect() returned or the collector has not
\* run (kept), and is closed when the object is reclaimed.
DROMADatabase_connect(name) ==
  \E exists \in BOOLEAN, kept \in BOOLEAN :
    IF ~exists
      THEN /\ conn_op' = Op(name, "DROMAConnectionError", 0)
           /\ UNCHANGED <<_global_connection, open_connections, made,
                          fn_made, db_connection, _is_connected, db_opened>>
           /\ UNCHANGED NotConnections
      ELSE /\ made < MaxConnections
           /\ made' = made + 1
           /\ db_opened' = db_opened \cup {made + 1}
           /\ open_connections' =
                (IF db_connection # 0 /\ ~kept
                   THEN open_connections \ {db_connection}
                   ELSE open_connections) \cup {made + 1}
           /\ db_connection' = made + 1
           /\ _is_connected' = TRUE
           /\ conn_op' = Op(name, "returned", made + 1)
           /\ UNCHANGED <<_global_connection, fn_made>>
           /\ UNCHANGED NotConnections

\* lines 82-89: DROMADatabase.close(), called as name
DROMADatabase_close(name) ==
  /\ IF db_connection # 0 /\ _is_connected
       THEN /\ open_connections' = open_connections \ {db_connection}
            /\ _is_connected' = FALSE
            /\ db_connection' = 0
            /\ conn_op' = Op(name, "returned", db_connection)
       ELSE /\ conn_op' = Op(name, "returned", 0)
            /\ UNCHANGED <<open_connections, _is_connected, db_connection>>
  /\ UNCHANGED <<_global_connection, made, fn_made, db_opened>>
  /\ UNCHANGED NotConnections

DbConnect ==
  DROMADatabase_connect("connect")

DbClose ==
  DROMADatabase_close("close")

\* lines 91-94
DbEnter ==
  DROMADatabase_connect("__enter__")

\* lines 96-98
DbExit ==
  DROMADatabase_close("__exit__")

\* lines 114-123: DROMADatabase.execute(query)
DbExecute ==
  /\ conn_op' = IF ~_is_connected \/ db_connection = 0
                  THEN Op("execute", "DROMAConnectionError", 0)
                ELSE IF db_connection \notin open_connections
                  THEN Op("execute", "DROMAError", db_connection)
                ELSE Op("execute", "returned", db_connection)
  /\ UNCHANGED <<_global_connection, open_connections, made, fn_made,
                 db_connection, _is_connected, db_opened>>
  /\ UNCHANGED NotConnections

NextConn ==
  \/ ConnectDromaDatabase
  \/ CloseDromaDatabase
  \/ GetGlobalConnection
  \/ DbConnect
  \/ DbClose
  \/ DbEnter
  \/ DbExit
  \/ DbExecute

ConnSpec ==
  InitConn /\ [][NextConn]_vars

\* ------------------------------------------------------------------------
\* The management of the store: management.py
\* ------------------------------------------------------------------------
\* an IndexID: prefix followed by the digits of n
IndexId(prefix, n) ==
  [prefix |-> prefix, n |-> n]

\* an IndexID that is NULL
NoIndexId ==
  [prefix |-> "<NULL>", n |-> 0]

\* a row of sample_anno with the columns the annotation update reads and
\* writes
StoredSample(id, raw, alt, project, index) ==
  [SampleID |-> id, ProjectRawName |-> raw, AlternateName |-> alt,
   ProjectID |-> project, IndexID |-> index]

StoredDrug(name, raw, project, index) ==
  [DrugName |-> name, ProjectRawName |-> raw,
   ProjectID |-> project, IndexID |-> index]

\* lines 584-591
IndexPrefix(anno_type) ==
  IF anno_type = "sample" THEN "UM_SAMPLE_" ELSE "UM_DRUG_"

IdOf(row, anno_type) ==
  IF anno_type = "sample" THEN row.SampleID ELSE row.DrugName

\* lines 606-609: the numbers left when the prefix is removed from the
\* IndexIDs that are not NULL and the rest is read as a number
NumericIds(existing_anno, index_prefix) ==
  {existing_anno[i].IndexID.n :
     i \in {j \in 1..Len(existing_anno) :
              /\ existing_anno[j].IndexID # NoIndexId
              /\ existing_anno[j].IndexID.prefix \in {index_prefix, ""}}}

\* the number of rows taken for the largest number
MaxIndexNum_counts_rows(existing_anno, index_prefix) ==
  Len(existing_anno)

\* lines 604-611
MaxIndexNum(existing_anno, index_prefix) ==
  IF NumericIds(existing_anno, index_prefix) = {} THEN 0
  ELSE Max(NumericIds(existing_anno, index_prefix))

\* lines 632-641: the rows of the snapshot with this id and project; a
\* comparison with None selects no row
ExistingCheck(existing_anno, anno_type, new_name, project_name) ==
  {j \in 1..Len(existing_anno) :
     /\ new_name # Null
     /\ IdOf(existing_anno[j], anno_type) = new_name
     /\ existing_anno[j].ProjectID = project_name}

\* the row with the original name as id
InsertData_keeps_original(anno_type, row, project_name, index_id) ==
  IF anno_type = "sample"
    THEN StoredSample(row.original_name, row.original_name, Null,
                      project_name, index_id)
    ELSE StoredDrug(row.original_name, row.original_name, project_name,
                    index_id)

\* lines 652-682: the row of insert_data
InsertData(anno_type, row, project_name, index_id) ==
  IF anno_type = "sample"
    THEN StoredSample(row.new_name, row.original_name, Null,
                      project_name, index_id)
    ELSE StoredDrug(row.new_name, row.original_name, project_name, index_id)

\* lines 689-694: the INSERT raises sqlite3.Error when the table has no
\* column AlternateName or refuses the NULL id
InsertFails(anno_type, row, has_alt, not_null) ==
  \/ anno_type = "sample" /\ ~has_alt
  \/ not_null /\ row.new_name = Null

\* where the loop of lines 626-694 stands: the number last given, the rows
\* inserted and the two counts
Loop(current, rows, added, skipped) ==
  [current_index_num |-> current, inserted |-> rows,
   added_count |-> added, skipped_count |-> skipped]

\* the loop without the test for an existing entry
RECURSIVE ProcessEntries_no_check(_, _, _, _, _, _, _, _)
ProcessEntries_no_check(name_mapping, i, existing_anno, anno_type, project_name, has_alt, not_null, st) ==
  IF i > Len(name_mapping) THEN st
  ELSE LET row == name_mapping[i]
       IN  IF InsertFails(anno_type, row, has_alt, not_null)
             THEN ProcessEntries_no_check(name_mapping, i + 1,
                    existing_anno, anno_type, project_name, has_alt, not_null,
                    Loop(st.current_index_num + 1, st.inserted,
                         st.added_count, st.skipped_count))
           ELSE ProcessEntries_no_check(name_mapping, i + 1,
                  existing_anno, anno_type, project_name, has_alt, not_null,
                  Loop(st.current_index_num + 1,
                       Append(st.inserted,
                              InsertData(anno_type, row, project_name,
                                         IndexId(IndexPrefix(anno_type),
                                                 st.current_index_num + 1))),
                       st.added_count + 1, st.skipped_count))

\* lines 626-694: the loop over name_mapping from row i on.  The test for
\* an existing entry reads existing_anno, the table as it was read before
\* the loop.
RECURSIVE ProcessEntries(_, _, _, _, _, _, _, _)
ProcessEntries(name_mapping, i, existing_anno, anno_type, project_name, has_alt, not_null, st) ==
  IF i > Len(name_mapping) THEN st
  ELSE LET row == name_mapping[i]
       IN  IF ExistingCheck(existing_anno, anno_type, row.new_name,
                            project_name) # {}
             THEN ProcessEntries(name_mapping, i + 1, existing_anno,
                    anno_type, project_name, has_alt, not_null,
                    Loop(st.current_index_num, st.inserted, st.added_count,
                         st.skipped_count + 1))
           ELSE IF InsertFails(anno_type, row, has_alt, not_null)
             THEN ProcessEntries(name_mapping, i + 1, existing_anno,
                    anno_type, project_name, has_alt, not_null,
                    Loop(st.current_index_num + 1, st.inserted,
                         st.added_count, st.skipped_count))
           ELSE ProcessEntries(name_mapping, i + 1, existing_anno,
                  anno_type, project_name, has_alt, not_null,
                  Loop(st.current_index_num + 1,
                       Append(st.inserted,
                              InsertData(anno_type, row, project_name,
                                         IndexId(IndexPrefix(anno_type),
                                                 st.current_index_num + 1))),
                       st.added_count + 1, st.skipped_count))

\* lines 559-561: the frame has the three columns
HasRequiredCols(name_mapping) ==
  \A i \in 1..Len(name_mapping) :
    {"original_name", "new_name", "match_confidence"}
      \subseteq DOMAIN name_mapping[i]

\* what update_droma_annotation leaves behind: how it ended, the rows it
\* inserted and the counts it logs
Updated(how, st) ==
  [outcome |-> how, inserted |-> st.inserted,
   summary |-> <<[added_count |-> st.added_count,
                  skipped_count |-> st.skipped_count,
                  current_index_num |-> st.current_index_num]>>]

\* lines 551-717: update_droma_annotation(anno_type, name_mapping,
\* project_name) on the annotation table existing_anno (present or not)
update_droma_annotation(anno_type, name_mapping, project_name, present, existing_anno, has_alt, not_null) ==
  IF anno_type \notin {"sample", "drug"}
    THEN Updated("DROMAValidationError", Loop(0, <<>>, 0, 0))
  ELSE IF ~HasRequiredCols(name_mapping)
    THEN Updated("DROMAValidationError", Loop(0, <<>>, 0, 0))
  ELSE IF ~present
    THEN Updated("DROMATableError", Loop(0, <<>>, 0, 0))
  ELSE Updated("returned",
         ProcessEntries(name_mapping, 1, existing_anno, anno_type,
                        project_name, has_alt, not_null,
                        Loop(MaxIndexNum(existing_anno,
                                         IndexPrefix(anno_type)),
                             <<>>, 0, 0)))

\* a row of a name_mapping written by hand
Mapping(original, new) ==
  [original_name |-> original, new_name |-> new, match_confidence |-> "high"]

\* name mappings written by hand: two rows with one new_name; an entry of
\* the filled table, a row without new_name and a new entry; and a frame
\* without the column match_confidence
FixedMappings ==
  { << Mapping(s_MCF_7, s_MCF7), Mapping(s_mcf_7, s_MCF7) >>,
    << Mapping(s_MC, s_MC116), Mapping(s_Missing, Null),
       Mapping(s_HeLa, s_HeLa) >>,
    << [original_name |-> s_HeLa, new_name |-> s_HeLa] >> }

\* the sample_anno of the stores mappings are stored in: empty, with
\* IndexIDs of the generated form, and with a NULL IndexID and one of
\* another form
IndexedSampleAnno ==
  << StoredSample(s_MC116, Null, Null, "P1", IndexId("UM_SAMPLE_", 1)),
     StoredSample(s_K562, s_XMCF7ABC, s_AltMCF7B, "P1",
                  IndexId("UM_SAMPLE_", 3)) >>

LegacySampleAnno ==
  << StoredSample(s_MC116, Null, Null, "P1", NoIndexId),
     StoredSample(s_K562, s_XMCF7ABC, s_AltMCF7B, "P2",
                  IndexId("UM_DRUG_", 7)) >>

\* A store on which the caller makes three calls, harmonizing sample names
\* and storing name mappings.
InitPersist ==
  /\ \/ /\ tables = {"sample_anno"}
        /\ sample_anno = <<>>
        /\ drug_anno = <<>>
        /\ sample_has_alt = TRUE
        /\ id_not_null = FALSE
     \/ /\ tables = {"sample_anno", "drug_anno"}
        /\ drug_anno = << StoredDrug(s_MC116, Null, "P1",
                                     IndexId("UM_DRUG_", 2)) >>
        /\ \/ /\ sample_anno = IndexedSampleAnno
              /\ sample_has_alt = TRUE
              /\ id_not_null \in BOOLEAN
           \/ /\ sample_anno = LegacySampleAnno
              /\ sample_has_alt = TRUE
              /\ id_not_null = FALSE
           \/ /\ sample_anno = WithoutAlt(IndexedSampleAnno)
              /\ sample_has_alt = FALSE
              /\ id_not_null = FALSE
  /\ call = NoCall
  /\ outcome = "none"
  /\ result = <<>>
  /\ cleaned = 0
  /\ previous = NoPrevious
  /\ calls_left = 3
  /\ NoCleaning
  /\ earlier = NoPrevious
  /\ omics = [n \in OmicsNames |-> NoTable]
  /\ _global_connection = 0
  /\ open_connections = {}
  /\ made = 0
  /\ fn_made = {}
  /\ db_connection = 0
  /\ _is_connected = FALSE
  /\ db_opened = {}
  /\ conn_op = NoOp

\* the list of names the caller works through and the max_distance it
\* uses (the default)
PersistWorklist ==
  <<s_MCF_7, s_mcf_7, s_LongSample>>

DefaultMaxDistance ==
  20

\* check_droma_sample_names on a part of the list, with the default
\* max_distance
HarmonizeSamples ==
  \E names \in Slices(PersistWorklist), m \in MinNameLengths :
    LET r == check_droma_sample_names(names, DefaultMaxDistance, m)
    IN  /\ calls_left > 0
        /\ calls_left' = calls_left - 1
        /\ earlier' = previous
        /\ previous' = [call |-> call, outcome |-> outcome, result |-> result]
        /\ call' = [fn |-> "check_droma_sample_names", names |-> names,
                    max_distance |-> DefaultMaxDistance,
                    min_name_length |-> m,
                    keep_long_names_threshold |-> SampleLongThreshold]
        /\ outcome' = r.outcome
        /\ result' = r.result
        /\ cleaned' = r.cleaned
        /\ UNCHANGED store
        /\ UNCHANGED written
        /\ UNCHANGED cleaning
        /\ UNCHANGED connections

\* the frames handed in as name_mapping: one written by hand or the one the
\* last harmonization returned
Mappings ==
  FixedMappings
    \cup (IF call.fn = "check_droma_sample_names" /\ outcome = "returned"
            THEN {result} ELSE {})

UpdateAnnotation ==
  \E anno_type \in {"sample", "drug", "cell"},
     name_mapping \in Mappings, project_name \in {"P1", "P2"} :
    LET existing_anno == IF anno_type = "drug" THEN drug_anno
                         ELSE sample_anno
        present == IF anno_type = "drug" THEN "drug_anno" \in tables
                   ELSE "sample_anno" \in tables
        r == update_droma_annotation(anno_type, name_mapping, project_name,
                                     present, existing_anno, sample_has_alt,
                                     id_not_null)
    IN  /\ calls_left > 0
        /\ calls_left' = calls_left - 1
        /\ earlier' = previous
        /\ previous' = [call |-> call, outcome |-> outcome, result |-> result]
        /\ call' = [fn |-> "update_droma_annotation",
                    anno_type |-> anno_type, name_mapping |-> name_mapping,
                    project_name |-> project_name]
        /\ outcome' = r.outcome
        /\ result' = r.summary
        /\ cleaned' = 0
        /\ sample_anno' = IF anno_type = "sample"
                            THEN sample_anno \o r.inserted ELSE sample_anno
        /\ drug_anno' = IF anno_type = "drug"
                          THEN drug_anno \o r.inserted ELSE drug_anno
        /\ UNCHANGED <<tables, sample_has_alt>>
        /\ UNCHANGED written
        /\ UNCHANGED cleaning
        /\ UNCHANGED connections

NextPersist ==
  \/ HarmonizeSamples
  \/ UpdateAnnotation

PersistSpec ==
  InitPersist /\ [][NextPersist]_vars

\* the objects handed to update_droma_database: data frames whose index
\* carries names or is the default one, arrays, and a list
Objects ==
  {[kind |-> "DataFrame", named |-> n, data |-> v] :
     n \in BOOLEAN, v \in {"A", "B"}}
    \cup {[kind |-> "ndarray", named |-> FALSE, data |-> v] :
            v \in {"A", "B"}}
    \cup {[kind |-> "list", named |-> FALSE, data |-> "A"]}

\* lines 91-98: the table to_sql writes, with the column feature_id when
\* the index carries names
Written(obj) ==
  [data |-> obj.data, feature_id |-> obj.named]

\* the call testing the object before the table
update_droma_database_type_first(obj, table_name, overwrite) ==
  IF obj.kind \notin {"ndarray", "DataFrame"}
    THEN [outcome |-> "DROMADataError", omics |-> omics]
  ELSE IF omics[table_name] # NoTable /\ ~overwrite
    THEN [outcome |-> "DROMATableError", omics |-> omics]
  ELSE [outcome |-> "returned",
          omics |-> [omics EXCEPT ![table_name] = Written(obj)]]

\* lines 59-118: update_droma_database(obj, table_name, overwrite)
update_droma_database(obj, table_name, overwrite) ==
  IF omics[table_name] # NoTable /\ ~overwrite
    THEN [outcome |-> "DROMATableError", omics |-> omics]
  ELSE IF obj.kind \notin {"ndarray", "DataFrame"}
    THEN [outcome |-> "DROMADataError", omics |-> omics]
  ELSE [outcome |-> "returned",
          omics |-> [omics EXCEPT ![table_name] = Written(obj)]]

\* A store without data tables, on which the caller makes two calls of
\* update_droma_database.
InitTables ==
  /\ tables = {"sample_anno"}
  /\ sample_anno = <<>>
  /\ drug_anno = <<>>
  /\ sample_has_alt = TRUE
  /\ call = NoCall
  /\ outcome = "none"
  /\ result = <<>>
  /\ cleaned = 0
  /\ previous = NoPrevious
  /\ calls_left = 2
  /\ NoCleaning
  /\ Untouched

UpdateDatabase ==
  \E obj \in Objects, table_name \in OmicsNames, overwrite \in BOOLEAN :
    LET r == update_droma_database(obj, table_name, overwrite)
    IN  /\ calls_left > 0
        /\ calls_left' = calls_left - 1
        /\ earlier' = previous
        /\ previous' = [call |-> call, outcome |-> outcome, result |-> result]
        /\ call' = [fn |-> "update_droma_database", obj |-> obj,
                    table_name |-> table_name, overwrite |-> overwrite]
        /\ outcome' = r.outcome
        /\ result' = <<>>
        /\ cleaned' = 0
        /\ omics' = r.omics
        /\ tables' = tables \cup {n \in OmicsNames : r.omics[n] # NoTable}
        /\ UNCHANGED <<sample_anno, drug_anno, sample_has_alt, id_not_null>>
        /\ UNCHANGED cleaning
        /\ UNCHANGED connections

TableSpec ==
  InitTables /\ [][UpdateDatabase]_vars

\* ------------------------------------------------------------------------
\* Properties of a harmonization call
\* ------------------------------------------------------------------------
IsSampleCall ==
  call.fn = "check_droma_sample_names"

IsDrugCall ==
  call.fn = "check_droma_drug_names"

Called ==
  IsSampleCall \/ IsDrugCall

\* the reference table of the last call is in the store
TableExists ==
  \/ IsSampleCall /\ "sample_anno" \in tables
  \/ IsDrugCall /\ "drug_anno" \in tables

\* the rows of the reference table of the last call
RefTable ==
  IF IsSampleCall THEN sample_anno ELSE drug_anno

Rows ==
  1..Len(result)

ExactTypes ==
  {"exact_sampleid", "exact_drugname", "exact_rawname", "exact_alternate"}

FuzzyTypes ==
  {"fuzzy_sampleid", "fuzzy_drugname", "fuzzy_rawname", "fuzzy_alternate"}

PartialTypes ==
  {"partial_sampleid", "partial_drugname", "partial_rawname"}

\* the original name of a row is longer than the threshold of the call
IsLong(row) ==
  Len(row.original_name) > call.keep_long_names_threshold

\* C1: for every input list and every existing reference table the call
\* returns exactly one result row per input, and row i has original_name
\* equal to the i-th input.
C1_OneRowPerInput ==
  (Called /\ TableExists) =>
    /\ outcome = "returned"
    /\ Len(result) = Len(call.names)
    /\ \A i \in Rows : result[i].original_name = call.names[i]

\* C2: with the reference table in the store a harmonization call never
\* raises; the only exception that propagates is the table-not-found error.
C2_OnlyTableErrorPropagates ==
  Called =>
    /\ outcome \in {"returned", "DROMATableError"}
    /\ outcome = "DROMATableError" => ~TableExists

\* C3: when the reference table is absent from the store the call raises
\* DROMATableError before any input name is cleaned and returns no rows.
C3_MissingTableRaisesFirst ==
  (Called /\ ~TableExists) =>
    /\ outcome = "DROMATableError"
    /\ cleaned = 0
    /\ result = <<>>

C3_Witness ==
  /\ Called
  /\ ~TableExists
  /\ Len(call.names) = MaxNames
  /\ outcome = "DROMATableError"

\* C4: when the reference table exists but has no rows, every input
\* resolves to no_match with confidence none and nothing is raised.
C4_EmptyTableAllNoMatch ==
  (Called /\ TableExists /\ RefTable = <<>>) =>
    /\ outcome = "returned"
    /\ Len(result) = Len(call.names)
    /\ \A i \in Rows :
         /\ result[i].original_name = call.names[i]
         /\ result[i].match_type = "no_match"
         /\ result[i].match_confidence = "none"

C4_Witness ==
  /\ IsDrugCall
  /\ TableExists
  /\ RefTable = <<>>
  /\ outcome = "returned"
  /\ \E i \in Rows : IsLong(result[i]) /\ result[i].match_type = "no_match"
  /\ \E i \in Rows : ~IsLong(result[i]) /\ result[i].match_type = "no_match"

\* a row kept as a long name
KeptLong(row) ==
  /\ row.match_type = "keep_original_long"
  /\ row.match_confidence = "medium"
  /\ row.harmonized_name = row.original_name

\* C5 as stated: an input longer than the long-name threshold of its
\* profile always yields keep_original_long / medium with harmonized_name =
\* original_name, whatever the reference table holds, the empty table
\* included.
C5_LongAlwaysBypasses ==
  outcome = "returned" =>
    \A i \in Rows : IsLong(result[i]) => KeptLong(result[i])

\* C5 amended: against a reference table with at least one row, an input
\* longer than the threshold yields keep_original_long / medium with
\* harmonized_name = original_name whatever the rows hold; against an empty
\* reference table it yields no_match / none.
C5_LongBypassesNonEmptyTable ==
  outcome = "returned" =>
    \A i \in Rows :
      IsLong(result[i]) =>
        IF RefTable # <<>>
          THEN KeptLong(result[i])
          ELSE /\ result[i].match_type = "no_match"
               /\ result[i].match_confidence = "none"

\* a long sample name is kept although a reference row has it as SampleID
C5_Witness ==
  /\ IsSampleCall
  /\ outcome = "returned"
  /\ \E i \in Rows :
       /\ IsLong(result[i])
       /\ KeptLong(result[i])
       /\ \E k \in 1..Len(sample_anno) :
            sample_anno[k].SampleID = result[i].original_name

\* the cleaned key of a name in the profile of the last call
KeyOf(name) ==
  IF IsSampleCall THEN CleanName(name) ELSE CleanDrug(name)

\* the cleaned keys of the three reference fields of the last call
IdKeys ==
  IF IsSampleCall
    THEN {CleanName(sample_anno[k].SampleID) : k \in 1..Len(sample_anno)}
    ELSE {CleanDrug(drug_anno[k].DrugName) : k \in 1..Len(drug_anno)}

RawKeys ==
  IF IsSampleCall
    THEN {CleanName(sample_anno[k].ProjectRawName) : k \in 1..Len(sample_anno)}
    ELSE {CleanDrug(drug_anno[k].ProjectRawName) : k \in 1..Len(drug_anno)}

AltKeys ==
  IF IsSampleCall /\ sample_has_alt
    THEN {e.clean_name : e \in Range(alternate_mapping(sample_anno))}
    ELSE {}

\* the fixed order of the tiers of the profile of the last call
TierOrder ==
  IF IsSampleCall
    THEN <<"exact_sampleid", "exact_rawname", "exact_alternate",
           "fuzzy_sampleid", "fuzzy_rawname", "fuzzy_alternate",
           "partial_sampleid", "partial_rawname">>
    ELSE <<"exact_drugname", "exact_rawname",
           "fuzzy_drugname", "fuzzy_rawname",
           "partial_drugname", "partial_rawname">>

\* the field a tier compares with
TierKeys(tier) ==
  IF tier \in {"exact_rawname", "fuzzy_rawname", "partial_rawname"}
    THEN RawKeys
  ELSE IF tier \in {"exact_alternate", "fuzzy_alternate"} THEN AltKeys
  ELSE IdKeys

\* the condition of a tier for the cleaned key q of an input
TierHolds(tier, q) ==
  IF tier \in ExactTypes THEN q \in TierKeys(tier)
  ELSE IF tier \in FuzzyTypes
    THEN /\ Len(q) >= FuzzyMinLength
         /\ \E k \in TierKeys(tier) :
              RatioAtLeast(q, k, ScoreCutoff(call.max_distance))
  ELSE /\ Len(q) >= call.min_name_length
       /\ \E k \in TierKeys(tier) : Contains(k, q)

\* the place in the order of the earliest tier, from place t on, whose
\* condition holds; 0 if there is none
RECURSIVE EarliestTier(_, _)
EarliestTier(q, t) ==
  IF t > Len(TierOrder) THEN 0
  ELSE IF TierHolds(TierOrder[t], q) THEN t
  ELSE EarliestTier(q, t + 1)

\* C6: for an input that is not kept as a long name, match_type is the
\* earliest tier of the fixed order whose condition holds for the input,
\* and no_match exactly when the condition of no tier holds.
C6_EarliestTierWins ==
  outcome = "returned" =>
    \A i \in Rows :
      result[i].match_type # "keep_original_long" =>
        LET t == EarliestTier(KeyOf(result[i].original_name), 1)
        IN  result[i].match_type =
              IF t = 0 THEN "no_match" ELSE TierOrder[t]

\* fuzzy_sampleid is reported although a raw name scores strictly higher
\* than every SampleID
C6_Witness ==
  /\ IsSampleCall
  /\ outcome = "returned"
  /\ \E i \in Rows :
       /\ result[i].match_type = "fuzzy_sampleid"
       /\ \E r \in RawKeys : \A k \in IdKeys :
            RatioGreater(result[i].cleaned_name, r, k)

\* C7: an input whose cleaned name is the empty string never receives an
\* exact_* match.
C7_NoExactMatchForEmptyKey ==
  outcome = "returned" =>
    \A i \in Rows :
      result[i].cleaned_name = <<>> => result[i].match_type \notin ExactTypes

ConfidenceOf(type) ==
  IF type \in ExactTypes THEN "high"
  ELSE IF type \in FuzzyTypes \cup {"keep_original_long"} THEN "medium"
  ELSE IF type \in PartialTypes THEN "low"
  ELSE "none"

C9_NoMatchKeepsCleanedName ==
  outcome = "returned" =>
    \A i \in Rows :
      result[i].match_type = "no_match" =>
        /\ result[i].harmonized_name = result[i].cleaned_name
        /\ result[i].new_name = result[i].original_name

\* C10: in every result row new_name equals harmonized_name whenever
\* match_type is not no_match, and original_name when it is no_match.
C10_NewNameMirrorsHarmonized ==
  outcome = "returned" =>
    \A i \in Rows :
      result[i].new_name =
        IF result[i].match_type # "no_match"
          THEN result[i].harmonized_name
          ELSE result[i].original_name

\* a fuzzy match of a drug, whose three names differ, next to a no_match row
\* whose harmonized name is not the original one
C10_Witness ==
  /\ IsDrugCall
  /\ outcome = "returned"
  /\ \E i, j \in Rows :
       /\ result[i].match_type \in FuzzyTypes
       /\ result[i].harmonized_name # result[i].original_name
       /\ result[i].new_name # result[i].original_name
       /\ result[j].match_type = "no_match"
       /\ result[j].harmonized_name # result[j].original_name

\* C11: harmonized_name is never null in any result row, whatever the
\* reference table holds, rows whose id field is null included.
C11_HarmonizedNeverNull ==
  outcome = "returned" =>
    \A i \in Rows : result[i].harmonized_name # Null

\* row k of the reference table satisfies the predicate of a tier against
\* the cleaned input q, the fuzzy tiers taken with the given cutoff
SampleRowQualifies(k, type, q, cutoff) ==
  LET id == CleanName(sample_anno[k].SampleID)
      raw == CleanName(sample_anno[k].ProjectRawName)
      own == IF sample_has_alt /\ sample_anno[k].AlternateName # Null
               THEN {CleanName(t) : t \in Range(StripTokens(SplitAlt(
                                          sample_anno[k].AlternateName)))}
               ELSE {}
  IN  CASE type = "exact_sampleid" -> id = q
        [] type = "exact_rawname" -> raw = q
        [] type = "exact_alternate" -> q \in own
        [] type = "fuzzy_sampleid" -> RatioAtLeast(q, id, cutoff)
        [] type = "fuzzy_rawname" -> RatioAtLeast(q, raw, cutoff)
        [] type = "fuzzy_alternate" ->
             \E a \in own : RatioAtLeast(q, a, cutoff)
        [] type = "partial_sampleid" -> Contains(id, q)
        [] type = "partial_rawname" -> Contains(raw, q)
        [] OTHER -> FALSE

DrugRowQualifies(k, type, q, cutoff) ==
  LET id == CleanDrug(drug_anno[k].DrugName)
      raw == CleanDrug(drug_anno[k].ProjectRawName)
  IN  CASE type = "exact_drugname" -> id = q
        [] type = "exact_rawname" -> raw = q
        [] type = "fuzzy_drugname" -> RatioAtLeast(q, id, cutoff)
        [] type = "fuzzy_rawname" -> RatioAtLeast(q, raw, cutoff)
        [] type = "partial_drugname" -> Contains(id, q)
        [] type = "partial_rawname" -> Contains(raw, q)
        [] OTHER -> FALSE

\* the reference rows that satisfy the tier of a matched result row
Qualifying(row, cutoff) ==
  IF IsSampleCall
    THEN {k \in 1..Len(sample_anno) :
            SampleRowQualifies(k, row.match_type, row.cleaned_name, cutoff)}
    ELSE {k \in 1..Len(drug_anno) :
            DrugRowQualifies(k, row.match_type, row.cleaned_name, cutoff)}

\* the canonical id of row k of the reference table of the last call
CanonicalId(k) ==
  IF IsSampleCall THEN sample_anno[k].SampleID ELSE drug_anno[k].DrugName

\* the reference rows a matched result row can have come from: they carry
\* its harmonized name as canonical id and satisfy its tier
OriginsAt(row, cutoff) ==
  {k \in Qualifying(row, cutoff) : CanonicalId(k) = row.harmonized_name}

Origins(row) ==
  OriginsAt(row, ScoreCutoff(call.max_distance))

\* C12: whenever match_type is exact_*, fuzzy_* or partial_*,
\* harmonized_name is the canonical id of a row of the reference table, and
\* that row (for the alternate tiers an alternate name it owns) satisfies the
\* predicate of the tier against the cleaned input: equal cleaned keys for
\* exact, similarity at or above the cutoff passed to the scorer for fuzzy,
\* cleaned input contained in the cleaned reference value for partial.
C12_MatchedRowQualifies ==
  outcome = "returned" =>
    \A i \in Rows :
      result[i].match_type \in ExactTypes \cup FuzzyTypes \cup PartialTypes
        => Origins(result[i]) # {}

\* a fuzzy match on an alternate name owned by a row that is not the first
\* one of the table, the first row not qualifying
C12_Witness ==
  /\ outcome = "returned"
  /\ \E i \in Rows :
       /\ result[i].match_type = "fuzzy_alternate"
       /\ Origins(result[i]) # {}
       /\ 1 \notin Origins(result[i])

\* C13: a fuzzy candidate is accepted only if its similarity score is at
\* least (1 - max_distance) x 100: no candidate scoring below that bound is
\* reported as a fuzzy_* match, for every max_distance.
C13_FuzzyScoreAtLeastBound ==
  outcome = "returned" =>
    \A i \in Rows :
      result[i].match_type \in FuzzyTypes =>
        OriginsAt(result[i], 100 - call.max_distance) # {}

\* the cleaned keys row k of the reference table offers to a tier: its id,
\* its raw name, or the alternate names it owns
FieldKeys(k, type) ==
  IF IsSampleCall
    THEN IF type \in {"exact_sampleid", "fuzzy_sampleid", "partial_sampleid"}
           THEN {CleanName(sample_anno[k].SampleID)}
         ELSE IF type \in {"exact_rawname", "fuzzy_rawname", "partial_rawname"}
           THEN {CleanName(sample_anno[k].ProjectRawName)}
         ELSE IF sample_has_alt /\ sample_anno[k].AlternateName # Null
           THEN {CleanName(t) : t \in Range(StripTokens(SplitAlt(
                                      sample_anno[k].AlternateName)))}
         ELSE {}
    ELSE IF type \in {"exact_drugname", "fuzzy_drugname", "partial_drugname"}
           THEN {CleanDrug(drug_anno[k].DrugName)}
           ELSE {CleanDrug(drug_anno[k].ProjectRawName)}

\* the rows that qualify at the tier of a matched result row; at a fuzzy
\* tier, those of them that offer a candidate of the best score
Winners(row) ==
  LET q == row.cleaned_name
      cutoff == ScoreCutoff(call.max_distance)
      Q == Qualifying(row, cutoff)
  IN  IF row.match_type \in FuzzyTypes
        THEN {k \in Q :
                \E a \in FieldKeys(k, row.match_type) :
                  /\ RatioAtLeast(q, a, cutoff)
                  /\ \A j \in Q : \A b \in FieldKeys(j, row.match_type) :
                       ~RatioGreater(q, b, a)}
        ELSE Q

\* C15: when several reference rows qualify at the winning tier (the same
\* cleaned key at an exact tier, several rows containing the input at a
\* partial tier, several candidates sharing the best score at a fuzzy tier),
\* harmonized_name is the canonical id of the first of them in the order of
\* the reference table.
C15_FirstRowWins ==
  outcome = "returned" =>
    \A i \in Rows :
      result[i].match_type \in ExactTypes \cup FuzzyTypes \cup PartialTypes
        => /\ Winners(result[i]) # {}
           /\ result[i].harmonized_name =
                CanonicalId(Min(Winners(result[i])))

\* two rows of different ids and different keys share the best score at a
\* fuzzy tier
C15_Witness ==
  /\ outcome = "returned"
  /\ \E i \in Rows :
       /\ result[i].match_type \in FuzzyTypes
       /\ \E j, k \in Winners(result[i]) :
            /\ j < k
            /\ CanonicalId(j) # CanonicalId(k)
            /\ FieldKeys(j, result[i].match_type)
                 # FieldKeys(k, result[i].match_type)
            /\ result[i].harmonized_name = CanonicalId(j)

\* ------------------------------------------------------------------------
\* Properties of two calls in a row
\* ------------------------------------------------------------------------
\* the last two calls were of the same function with the same
\* min_name_length, and both returned
SameFunctionReturned ==
  /\ Called
  /\ previous.call.fn = call.fn
  /\ previous.call.min_name_length = call.min_name_length
  /\ previous.outcome = "returned"
  /\ outcome = "returned"

\* how many rows report a fuzzy match
FuzzyCount(rows) ==
  Cardinality({i \in 1..Len(rows) : rows[i].match_type \in FuzzyTypes})

\* C14: for the same inputs and reference table and max_distance values
\* d1 <= d2, the number of inputs reported with a fuzzy_* match type at d1
\* is not greater than at d2.
C14_TighterThresholdLosesFuzzy ==
  (/\ SameFunctionReturned
   /\ previous.call.names = call.names) =>
    /\ previous.call.max_distance <= call.max_distance
         => FuzzyCount(previous.result) <= FuzzyCount(result)
    /\ call.max_distance <= previous.call.max_distance
         => FuzzyCount(result) <= FuzzyCount(previous.result)

\* the same batch has a fuzzy match at the default 0.2 and none at 0.0
C14_Witness ==
  /\ SameFunctionReturned
  /\ previous.call.names = call.names
  /\ previous.call.max_distance = 20
  /\ call.max_distance = 0
  /\ FuzzyCount(previous.result) > 0
  /\ FuzzyCount(result) = 0

\* C16: after any sequence of check_droma_sample_names and
\* check_droma_drug_names calls, whether they return or raise, the rows and
\* columns of sample_anno and drug_anno in the store are unchanged.
C16_StoreOnlyRead ==
  [][/\ tables' = tables
     /\ sample_anno' = sample_anno
     /\ drug_anno' = drug_anno
     /\ sample_has_alt' = sample_has_alt]_vars

\* a call that raised followed by a call that returned matched rows from a
\* sample_anno that still has its rows
C16_Witness ==
  /\ calls_left = 0
  /\ previous.outcome \in {"DROMATableError", "KeyError"}
  /\ IsSampleCall
  /\ outcome = "returned"
  /\ \E i \in Rows : result[i].match_type \in FuzzyTypes \cup PartialTypes
  /\ sample_anno = TwoCallSampleAnno

\* the last two calls were of the same function with the same parameters,
\* the batches apart
SameParameters ==
  /\ Called
  /\ previous.call.fn = call.fn
  /\ previous.call.max_distance = call.max_distance
  /\ previous.call.min_name_length = call.min_name_length
  /\ previous.call.keep_long_names_threshold = call.keep_long_names_threshold

\* batch a is the beginning (the end) of batch b
IsPrefix(a, b) ==
  Len(a) <= Len(b) /\ SubSeq(b, 1, Len(a)) = a

IsSuffix(a, b) ==
  Len(a) <= Len(b) /\ SubSeq(b, Len(b) - Len(a) + 1, Len(b)) = a

\* C17: each result row depends only on its input, the reference table and
\* the parameters of the call.  A call repeated on the unchanged store ends
\* as it ended before, and the rows a non-empty batch got in a call of its
\* own are the rows it gets as the beginning or the end of a longer batch,
\* so that the result of a concatenation is the concatenation of the
\* results.
C17_RowsIndependent ==
  SameParameters =>
    /\ previous.call.names = call.names =>
         /\ outcome = previous.outcome
         /\ result = previous.result
    /\ (/\ previous.outcome = "returned"
        /\ outcome = "returned"
        /\ previous.call.names # <<>>) =>
         /\ IsPrefix(previous.call.names, call.names) =>
              SubSeq(result, 1, Len(previous.result)) = previous.result
         /\ IsSuffix(previous.call.names, call.names) =>
              SubSeq(result, Len(result) - Len(previous.result) + 1,
                     Len(result)) = previous.result

\* a batch harmonized after its last name was harmonized alone, the two
\* names of the batch getting rows of different match types
C17_Witness ==
  /\ SameParameters
  /\ previous.outcome = "returned"
  /\ outcome = "returned"
  /\ Len(previous.call.names) = 1
  /\ Len(call.names) = 2
  /\ IsSuffix(previous.call.names, call.names)
  /\ result[2] = previous.result[1]
  /\ result[1].match_type # result[2].match_type
  /\ result[2].match_type # "no_match"


\* ------------------------------------------------------------------------
\* Properties of the cleaners
\* ------------------------------------------------------------------------
\* C18: canonicalization is idempotent in both profiles: the cleaner applied
\* to the key it returned gives that key again.
C18_CleanIdempotent ==
  rekey # Null => rekey = key

BracketChars ==
  {"(", ")", "[", "]"}

\* a name without brackets or parentheses
Plain(s) ==
  \A i \in 1..Len(s) : s[i] \notin BracketChars

\* a key was cleaned a second time, the first cleaning having removed
\* brackets or parentheses and left something
C18_Witness ==
  /\ rekey # Null
  /\ text # Null
  /\ ~Plain(text)
  /\ key # <<>>
  /\ rekey = key

\* only a-z and 0-9
IsSampleKey(k) ==
  \A i \in 1..Len(k) : k[i] \in AlnumChars

\* words of a-z and 0-9, one space between two words, none at the ends
IsDrugKey(k) ==
  /\ \A i \in 1..Len(k) : k[i] \in AlnumChars \cup {" "}
  /\ k # <<>> => k[1] # " " /\ k[Len(k)] # " "
  /\ \A i \in 1..(Len(k) - 1) : ~(k[i] = " " /\ k[i + 1] = " ")

\* what is left of a name when case, spaces and punctuation are ignored
Projection(s) ==
  KeepChars(Lower(s), AlnumChars)

\* length of the run of letters and digits at the start of s
RunLen(s) ==
  LET stops == {j \in 1..Len(s) : s[j] \notin AlnumChars}
  IN  IF stops = {} THEN Len(s) ELSE Min(stops) - 1

\* the maximal runs of letters and digits of s, in order
RECURSIVE Words(_)
Words(s) ==
  IF s = <<>> THEN <<>>
  ELSE IF RunLen(s) = 0 THEN Words(Drop(s, 2))
  ELSE <<SubSeq(s, 1, RunLen(s))>> \o Words(Drop(s, RunLen(s) + 1))

HasCJK(s) ==
  \E i \in 1..Len(s) : s[i] \in CJKChars

\* the shape of the two keys, for every input
KeyShape ==
  /\ text \in {Null, <<>>} => key = <<>>
  /\ profile = "sample" => IsSampleKey(key)
  /\ profile = "drug" => IsDrugKey(key)

\* C19 as stated: besides the shape of the keys, every name has the sample
\* key of the names that differ from it only in case, spaces or punctuation,
\* and the words of the drug key are the words of the name.
C19_KeyIgnoresAllPunctuation ==
  (profile # "none") =>
    /\ KeyShape
    /\ (profile = "sample" /\ text # Null) => key = Projection(text)
    /\ (profile = "drug" /\ text # Null) => Words(key) = Words(Lower(text))

\* C19: for every input (null and empty give the empty string) the sample
\* key holds only a-z and 0-9 and the drug key only a-z/0-9 words separated
\* by exactly one space with none at the ends; for names without brackets
\* or parentheses, names differing only in case, spaces or punctuation get
\* the same sample key, and, when they hold no ideograph either, the words
\* of the drug key are the words of the name.
C19_KeyShape ==
  (profile # "none") =>
    /\ KeyShape
    /\ (profile = "sample" /\ text # Null /\ Plain(text))
         => key = Projection(text)
    /\ (profile = "drug" /\ text # Null /\ Plain(text) /\ ~HasCJK(text))
         => Words(key) = Words(Lower(text))

\* "5-Fluorouracil" cleaned by the drug profile: two words, one space
C19_Witness ==
  /\ profile = "drug"
  /\ text = s_Fluorouracil
  /\ key = <<"5"," ","f","l","u","o","r","o","u","r","a","c","i","l">>

\* the name as the parenthesis step of a profile receives it
BeforeParens(name, p) ==
  LET s == RemoveChars(RemoveAll(Lower(name), <<"[", "?", "]">>), CJKChars)
  IN  IF p = "sample" THEN RemoveBrackets(s) ELSE s

\* the steps of a profile after its parenthesis step
AfterParens(s, p) ==
  IF p = "sample" THEN Strip(KeepChars(s, AlnumChars))
                  ELSE Strip(Collapse(Spaced(s)))

\* nesting depth of parentheses after the first i characters of t
RECURSIVE Depth(_, _)
Depth(t, i) ==
  IF i = 0 THEN 0
  ELSE Depth(t, i - 1)
         + (IF t[i] = "(" THEN 1 ELSE IF t[i] = ")" THEN -1 ELSE 0)

\* the whole of t is one parenthesized group: it opens with "(" and the
\* first ")" that closes it (the first one at all, or the one that brings
\* the nesting back to zero) is its last character
SingleGroup(t) ==
  /\ Len(t) >= 2
  /\ t[1] = "("
  /\ t[Len(t)] = ")"
  /\ \/ PosFrom(t, 2, ")") = {Len(t)}
     \/ \A i \in 1..(Len(t) - 1) : Depth(t, i) > 0

\* the key the parenthesis rule asks for
ParenRuleKey(name, p) ==
  LET s == BeforeParens(name, p)
      t == Strip(s)
  IN  AfterParens(IF SingleGroup(t) THEN SubSeq(t, 2, Len(t) - 1)
                                    ELSE RemoveParenGroups(s), p)

\* C20: in both profiles the inner content is kept only when the whole
\* trimmed string is a single parenthesized group; in every other case,
\* a string that merely starts with "(" and ends with ")" included, each
\* parenthesized group goes with its content.
C20_GroupsRemovedUnlessSingle ==
  (profile # "none" /\ text # Null) => key = ParenRuleKey(text, profile)


\* ------------------------------------------------------------------------
\* Properties of the length tests
\* ------------------------------------------------------------------------
\* C22: no row is a fuzzy match when its cleaned name is shorter than 3
\* characters, and none is a partial match when its cleaned name is shorter
\* than min_name_length, whatever min_name_length and max_distance.
C22_ShortKeysSkipTiers ==
  (outcome = "returned") =>
    \A i \in 1..Len(result) :
      /\ result[i].match_type \in FuzzyTypes
           => Len(result[i].cleaned_name) >= 3
      /\ result[i].match_type \in PartialTypes
           => Len(result[i].cleaned_name) >= call.min_name_length

\* "K5" is left unmatched at max_distance 0.55 although the first reference
\* name scores above the cutoff, and in the call before "MCF-7" is left
\* unmatched at min_name_length 5 although a raw name contains its key
C22_Witness ==
  /\ call.fn = "check_droma_drug_names"
  /\ call.max_distance = 55
  /\ outcome = "returned"
  /\ drug_anno # <<>>
  /\ \E i \in 1..Len(result) :
       /\ result[i].original_name = s_K5
       /\ result[i].match_type = "no_match"
       /\ RatioAtLeast(result[i].cleaned_name,
                       CleanDrug(drug_anno[1].DrugName), ScoreCutoff(55))
  /\ previous.call.fn = "check_droma_sample_names"
  /\ previous.call.min_name_length = 5
  /\ \E i \in 1..Len(previous.result) :
       /\ previous.result[i].original_name = s_MCF_7
       /\ previous.result[i].match_type = "no_match"
       /\ Contains(CleanName(sample_anno[2].ProjectRawName),
                   previous.result[i].cleaned_name)

\* C23: keep_original_long is reported only for inputs whose original
\* length is strictly greater than the threshold (30 for samples,
\* keep_long_names_threshold for drugs); an input of exactly that length
\* goes through the tiers.
C23_LongOnlyAboveThreshold ==
  (outcome = "returned") =>
    \A i \in 1..Len(result) :
      result[i].match_type = "keep_original_long"
        => Len(result[i].original_name) > call.keep_long_names_threshold

\* a name of 30 characters matched by a tier next to one of 31 characters,
\* cleaned to a key of 4, kept as a long name
C23_Witness ==
  /\ call.fn = "check_droma_sample_names"
  /\ outcome = "returned"
  /\ \E i, j \in 1..Len(result) :
       /\ Len(result[i].original_name) = SampleLongThreshold
       /\ result[i].match_type \in FuzzyTypes \cup PartialTypes
       /\ Len(result[j].original_name) = SampleLongThreshold + 1
       /\ Len(result[j].cleaned_name) = 4
       /\ result[j].match_type = "keep_original_long"


\* ------------------------------------------------------------------------
\* Properties of the alternate-name expansion
\* ------------------------------------------------------------------------
AltDelimiters ==
  {":", "|"}

\* the parts of s between two delimiters (or an end of s), as pairs of
\* positions; a part may be empty
AltSegments(s) ==
  {sg \in (1..(Len(s) + 1)) \X (0..Len(s)) :
     /\ sg[1] <= sg[2] + 1
     /\ sg[1] = 1 \/ s[sg[1] - 1] \in AltDelimiters
     /\ sg[2] = Len(s) \/ s[sg[2] + 1] \in AltDelimiters
     /\ \A k \in sg[1]..sg[2] : s[k] \notin AltDelimiters}

\* the parts of the AlternateName of a row that are not empty once trimmed
AltTokens(row) ==
  IF row.AlternateName = Null THEN {}
  ELSE {sg \in AltSegments(row.AlternateName) :
          Strip(SubSeq(row.AlternateName, sg[1], sg[2])) # <<>>}

\* C24: with the AlternateName column the expansion built for a call holds,
\* for every reference row, the SampleID mapped to itself and one entry per
\* part of AlternateName between ':' or '|', trimmed, mapped to the SampleID
\* of the row; parts empty after trimming give no entry, and there is no
\* other entry.
C24_AlternateExpansion ==
  (call.fn = "check_droma_sample_names" /\ sample_has_alt) =>
    LET m == alternate_mapping(sample_anno)
        rows == 1..Len(sample_anno)
        Token(r, sg) == Strip(SubSeq(sample_anno[r].AlternateName, sg[1], sg[2]))
    IN  /\ \A r \in rows :
             \E k \in 1..Len(m) :
               /\ m[k].raw_name = sample_anno[r].SampleID
               /\ m[k].harmonized_name = sample_anno[r].SampleID
        /\ \A r \in rows : \A sg \in AltTokens(sample_anno[r]) :
             \E k \in 1..Len(m) :
               /\ m[k].raw_name = Token(r, sg)
               /\ m[k].harmonized_name = sample_anno[r].SampleID
        /\ \A k \in 1..Len(m) :
             \E r \in rows :
               /\ m[k].harmonized_name = sample_anno[r].SampleID
               /\ \/ m[k].raw_name = sample_anno[r].SampleID
                  \/ \E sg \in AltTokens(sample_anno[r]) :
                       m[k].raw_name = Token(r, sg)
        /\ Len(m) = Len(sample_anno)
                      + Cardinality(UNION {{<<r, sg>> :
                                              sg \in AltTokens(sample_anno[r])} :
                                            r \in rows})

\* a call on a table whose rows hold "MCF.7|MCF7_BREAST" (two names) and
\* "mcf7b: |" (one name, two empty parts): five entries, and an input
\* matched through one of them
C24_Witness ==
  /\ call.fn = "check_droma_sample_names"
  /\ outcome = "returned"
  /\ sample_has_alt
  /\ Len(sample_anno) = 2
  /\ {sample_anno[1].AlternateName, sample_anno[2].AlternateName}
       = {s_AltMCF7, s_AltMCF7B}
  /\ Len(alternate_mapping(sample_anno)) = 5
  /\ \E i \in 1..Len(result) : result[i].match_type = "exact_alternate"


\* ------------------------------------------------------------------------
\* Properties of the connections
\* ------------------------------------------------------------------------
\* C26: whatever the sequence of connect_droma_database,
\* close_droma_database(None) and close_droma_database(c), the global
\* connection is unset or open, and get_global_connection never returns a
\* connection that has been closed.
C26_GlobalUnsetOrOpen ==
  /\ _global_connection = 0 \/ _global_connection \in open_connections
  /\ (conn_op.op = "get_global_connection" /\ conn_op.outcome = "returned")
       => conn_op.returned \in open_connections

\* C27: of the connections one DROMADatabase opened at most one is open at
\* a time, and _is_connected is true exactly when self.connection refers to
\* an open connection, so that execute raises DROMAConnectionError exactly
\* when no open connection is held.
C27_OneOpenConnection ==
  /\ Cardinality(db_opened \cap open_connections) <= 1
  /\ _is_connected <=> (db_connection # 0 /\ db_connection \in open_connections)
  /\ conn_op.op = "execute"
       => (conn_op.outcome = "DROMAConnectionError"
             <=> ~(db_connection # 0 /\ db_connection \in open_connections))

\* ------------------------------------------------------------------------
\* Properties of the management of the store
\* ------------------------------------------------------------------------
\* the step is a call of update_droma_database
UpdateDatabaseStep ==
  /\ calls_left' = calls_left - 1
  /\ call'.fn = "update_droma_database"

\* the table the call names exists and overwrite is False
RefusedOverwrite ==
  /\ omics[call'.table_name] # NoTable
  /\ ~call'.overwrite

BadObject ==
  call'.obj.kind \notin {"DataFrame", "ndarray"}

\* C21 as stated: update_droma_database on an existing table with
\* overwrite=False raises DROMATableError and leaves the table's contents
\* unchanged, and an object that is neither a DataFrame nor an array always
\* raises DROMADataError without writing anything.
C21_TableErrorAndDataError ==
  [][UpdateDatabaseStep =>
       /\ RefusedOverwrite =>
            /\ outcome' = "DROMATableError"
            /\ omics' = omics
       /\ BadObject =>
            /\ outcome' = "DROMADataError"
            /\ omics' = omics]_vars

\* C21 amended: update_droma_database on an existing table with
\* overwrite=False raises DROMATableError and leaves the table's contents
\* unchanged; in every other call an object that is neither a DataFrame nor
\* an array raises DROMADataError without writing anything, also when
\* overwrite=True.
C21_TableErrorBeforeDataError ==
  [][UpdateDatabaseStep =>
       /\ RefusedOverwrite =>
            /\ outcome' = "DROMATableError"
            /\ omics' = omics
            /\ tables' = tables
       /\ BadObject /\ ~RefusedOverwrite =>
            /\ outcome' = "DROMADataError"
            /\ omics' = omics
            /\ tables' = tables]_vars

\* a list was handed in with overwrite=True for a table an earlier call
\* wrote, and the table is still there
C21_Witness ==
  /\ call.fn = "update_droma_database"
  /\ previous.call.fn = "update_droma_database"
  /\ previous.outcome = "returned"
  /\ previous.call.table_name = call.table_name
  /\ call.obj.kind = "list"
  /\ call.overwrite
  /\ outcome = "DROMADataError"
  /\ omics[call.table_name] = Written(previous.call.obj)

\* the step is a call of update_droma_annotation
UpdateAnnotationStep ==
  /\ calls_left' = calls_left - 1
  /\ call'.fn = "update_droma_annotation"

\* at most one row per (id, ProjectID) pair, rows without id aside
UniquePerProject(anno, anno_type) ==
  \A i, j \in 1..Len(anno) :
    /\ i # j
    /\ IdOf(anno[i], anno_type) # Null
    /\ IdOf(anno[i], anno_type) = IdOf(anno[j], anno_type)
    => anno[i].ProjectID # anno[j].ProjectID

\* C25: if the annotation table has at most one row per (SampleID or
\* DrugName, ProjectID) pair before update_droma_annotation is called, it has
\* at most one row per pair afterwards, for every name_mapping.
C25_UniquePerProjectKept ==
  [][UpdateAnnotationStep =>
       /\ UniquePerProject(sample_anno, "sample")
            => UniquePerProject(sample_anno', "sample")
       /\ UniquePerProject(drug_anno, "drug")
            => UniquePerProject(drug_anno', "drug")]_vars

\* the table the step is about, before and after it, and the rows the step
\* appended to it
TableBefore ==
  IF call'.anno_type = "drug" THEN drug_anno ELSE sample_anno

TableAfter ==
  IF call'.anno_type = "drug" THEN drug_anno' ELSE sample_anno'

Appended ==
  SubSeq(TableAfter, Len(TableBefore) + 1, Len(TableAfter))

\* the IndexID is the prefix followed by a number
IsNumbered(index, prefix) ==
  index # NoIndexId /\ index.prefix \in {prefix, ""}

\* m is the largest number in the IndexIDs of the table, 0 if there is none
IsLargest(m, anno, prefix) ==
  /\ \A j \in 1..Len(anno) :
       IsNumbered(anno[j].IndexID, prefix) => anno[j].IndexID.n <= m
  /\ \/ m = 0
     \/ \E j \in 1..Len(anno) :
          IsNumbered(anno[j].IndexID, prefix) /\ anno[j].IndexID.n = m

\* C28 as stated: the k-th row a call of update_droma_annotation inserts
\* gets the IndexID prefix+(max+k), max being the largest number in the
\* IndexIDs already in the table.
C28_ConsecutiveIndexIds ==
  [][UpdateAnnotationStep /\ outcome' = "returned" =>
       \A k \in 1..Len(Appended) :
         /\ Appended[k].IndexID.prefix = IndexPrefix(call'.anno_type)
         /\ IsLargest(Appended[k].IndexID.n - k, TableBefore,
                      IndexPrefix(call'.anno_type))]_vars

\* C28 amended: every inserted row gets an IndexID prefix+n with n greater
\* than every number already in the table; the numbers increase in the
\* order of insertion, none is greater than max plus the number of rows of
\* name_mapping that were not skipped, and when every row that was not
\* skipped was inserted they are max+1, max+2, ...
C28_IncreasingIndexIds ==
  [][UpdateAnnotationStep /\ outcome' = "returned" =>
       LET prefix == IndexPrefix(call'.anno_type)
           tried == Len(call'.name_mapping) - result'[1].skipped_count
       IN  /\ Len(Appended) = result'[1].added_count
           /\ \A k \in 1..Len(Appended) :
                /\ Appended[k].IndexID.prefix = prefix
                /\ \A j \in 1..Len(TableBefore) :
                     IsNumbered(TableBefore[j].IndexID, prefix)
                       => Appended[k].IndexID.n > TableBefore[j].IndexID.n
                /\ \A l \in 1..Len(Appended) :
                     k < l => Appended[k].IndexID.n < Appended[l].IndexID.n
                /\ \E m \in 0..Appended[k].IndexID.n :
                     /\ IsLargest(m, TableBefore, prefix)
                     /\ Appended[k].IndexID.n >= m + k
                     /\ Appended[k].IndexID.n <= m + tried
                     /\ Len(Appended) = tried
                          => Appended[k].IndexID.n = m + k]_vars

\* a call skipped an entry that was there, had an INSERT refused and
\* inserted a row after it, on a table that had numbered rows
C28_Witness ==
  /\ call.fn = "update_droma_annotation"
  /\ outcome = "returned"
  /\ call.anno_type = "sample"
  /\ result[1].skipped_count > 0
  /\ result[1].added_count > 0
  /\ Len(call.name_mapping)
       > result[1].skipped_count + result[1].added_count
  /\ \E j \in 1..Len(sample_anno) :
       /\ sample_anno[j].ProjectRawName = s_HeLa
       /\ sample_anno[j].IndexID = IndexId("UM_SAMPLE_", 5)

\* every new_name of the frame is a string
StringNames(name_mapping) ==
  \A i \in 1..Len(name_mapping) : name_mapping[i].new_name # Null

\* the step repeats the call made last: same anno_type, name_mapping and
\* project_name
RepeatedUpdate ==
  /\ UpdateAnnotationStep
  /\ call.fn = "update_droma_annotation"
  /\ outcome = "returned"
  /\ call'.anno_type = call.anno_type
  /\ call'.name_mapping = call.name_mapping
  /\ call'.project_name = call.project_name

\* C29: update_droma_annotation called twice in succession with the same
\* name_mapping (string new_name values) and the same project_name inserts
\* no row on the second call and leaves the annotation tables as they were
\* after the first.
C29_SecondUpdateInsertsNothing ==
  [][RepeatedUpdate /\ StringNames(call.name_mapping) =>
       /\ outcome' = "returned"
       /\ result'[1].added_count = 0
       /\ sample_anno' = sample_anno
       /\ drug_anno' = drug_anno]_vars

\* the same mapping was stored twice for one project; the first call
\* inserted rows and the second skipped every row
C29_Witness ==
  /\ call.fn = "update_droma_annotation"
  /\ previous.call.fn = "update_droma_annotation"
  /\ call = previous.call
  /\ StringNames(call.name_mapping)
  /\ Len(call.name_mapping) > 0
  /\ previous.outcome = "returned"
  /\ previous.result[1].added_count = Len(call.name_mapping)
  /\ outcome = "returned"
  /\ result[1].added_count = 0
  /\ result[1].skipped_count = Len(call.name_mapping)

\* a batch was harmonized, the mapping returned was stored with
\* update_droma_annotation('sample', mapping, P), and the same batch was
\* harmonized again with the same parameters
HarmonizedStoredHarmonized ==
  /\ earlier.call.fn = "check_droma_sample_names"
  /\ earlier.outcome = "returned"
  /\ previous.call.fn = "update_droma_annotation"
  /\ previous.outcome = "returned"
  /\ previous.call.anno_type = "sample"
  /\ previous.call.name_mapping = earlier.result
  /\ call = earlier.call
  /\ outcome = "returned"

\* C30 as stated: when a batch is harmonized, the mapping stored for a
\* project and the batch harmonized again with the same parameters, every input's
\* new_name in the second result equals its new_name in the first.
C30_StableUnderPersistence ==
  HarmonizedStoredHarmonized =>
    /\ Len(result) = Len(earlier.result)
    /\ \A i \in 1..Len(result) :
         result[i].new_name = earlier.result[i].new_name

\* C30 amended: when a batch of one sample name is harmonized, the mapping
\* stored for a project and the batch harmonized again with the same
\* parameters, the input's new_name in the second result equals its new_name
\* in the first.
C30_SingleNameStable ==
  HarmonizedStoredHarmonized /\ Len(call.names) = 1 =>
    /\ Len(result) = 1
    /\ Len(earlier.result) = 1
    /\ result[1].new_name = earlier.result[1].new_name

\* a name matched a reference row through a fuzzy or partial tier, the
\* mapping was stored as a new row, and the second harmonization found the
\* name through the stored row
C30_Witness ==
  /\ HarmonizedStoredHarmonized
  /\ Len(call.names) = 1
  /\ earlier.result[1].match_type \in FuzzyTypes \cup PartialTypes
  /\ previous.result[1].added_count = 1
  /\ result[1].match_type = "exact_rawname"
  /\ result[1].new_name = s_K562

====
